---- MODULE Spec2Model ----
(***************************************************************************)
(* Model of the FF1 pixel-remaster autosplitter's split logic.             *)
(*                                                                         *)
(* The repository carries two snapshots of the logic:                      *)
(*   - game.rs / splits.rs : Game (two bool watchers and a seen-pickup set)*)
(*     wrapped by Progress, which delays the Chaos split by a countdown;   *)
(*   - lib.rs              : Splits (battle, location and inventory        *)
(*     checks, a seen-split bitset and a battle-time deadline for Chaos).  *)
(*                                                                         *)
(* One poll of a program is one action.  The values a poll reads from the  *)
(* remote process are its input, drawn from a small set and remembered in  *)
(* the history variable "sample".  A run drives one program over one input *)
(* universe; "sut" names it.                                               *)
(***************************************************************************)
EXTENDS Integers, Sequences, FiniteSets, TLC

VARIABLES
    sut,            \* which program and input universe this run drives
    beat,           \* history: parity of the polls made, so every poll is a step
    steady,         \* history: this poll read exactly what the previous one read
    sample,         \* history: the remote values read by the last poll
    ret,            \* history: what the last poll returned
    bret,           \* history: battle_check of the last poll: return site, monster
    iret,           \* history: inventory_check of the last poll
    returned,       \* history: the SplitOn values Splits::check has returned
    order,          \* history: the watchers the last poll updated, in order
    fight,          \* history: the battle in progress or just ended, see FightNext
    lastInsert,     \* history: the last call of EnumSet::insert and the ordinals tried
    lastTimer,      \* history: the timer state the last call of main_loop read
    spun,           \* history: the timer state the call of main_loop before the last
                    \* one read, if that call returned Continue
    in_battle,      \* Game.in_battle      : Watcher<bool>
    battle_playing, \* Game.battle_playing : Watcher<bool>
    items,          \* Game.items          : AHashSet<Pickup>
    delay,          \* Delayed.delay  : Option<NonZeroU32>, 0 is None
    action,         \* Delayed.action : Option<Action>
    panic,          \* the program panicked ("double tick")
    age,            \* history: polls since Game::running reported Chaos
    lastSet,        \* history: Delayed::set in the last poll: "none", "idle", "pending"
    sp_in_battle,   \* Splits.in_battle     : Watcher<bool>
    battle_result,  \* Splits.battle_result : Watcher<BattleResult>
    location,       \* Splits.location      : Watcher<Location>
    sp_items,       \* Splits.items         : EnumSet<Item>
    seen,           \* Splits.seen          : EnumSet<SplitOn>
    chaos_end,      \* Splits.chaos_end     : f32, in whole seconds
    ptr,            \* the address held by the Pointer<Map<K, V>> that is iterated
    mem,            \* the remote memory: the readable addresses and their values
    iter,           \* the iterator Pointer<Map<K, V>>::iter returned, if any
    out,            \* history: the items the iterator has yielded
    reads,          \* history: the addresses the reader was asked to read, in order
    index,          \* history: the index passed to Pointer<Array<T>>::get, -1 before
    count,          \* history: what Items::key_items_count returned, -1 before
    state,          \* main_loop: the variant of State, NotRunning or Running
    fade_out,       \* Title.fade_out, while state is NotRunning
    flow            \* what the last call of main_loop returned

gameVars == <<in_battle, battle_playing, items>>
delayedVars == <<delay, action, panic, age, lastSet>>
splitsVars == <<sp_in_battle, battle_result, location, sp_items, seen, chaos_end>>
histVars == <<beat, steady, sample, ret, bret, iret, returned, order, fight, lastInsert,
              lastTimer, spun>>
dataVars == <<ptr, mem, iter, out, reads, index, count>>
mainVars == <<state, fade_out, flow>>
vars == <<sut, histVars, gameVars, delayedVars, splitsVars, dataVars, mainVars>>

----------------------------------------------------------------------------
(* Bounds of the input universes. *)

MaxKeyItems == 2    \* longest key-item list a poll reads
MaxVehicles == 1    \* longest vehicle list a poll reads
MaxTime == 3        \* largest battle elapsed time a poll reads, in seconds
MaxSlots == 4       \* largest backing array and largest Map.size in remote memory

(* The one element of a singleton set: Only({e(x) : x \in {v}}) evaluates v *)
(* once and e on its value.                                                *)
Only(S) == CHOOSE x \in S : TRUE

RECURSIVE SeqsUpTo(_, _)
SeqsUpTo(S, n) ==
    IF n = 0 THEN {<<>>}
    ELSE LET shorter == SeqsUpTo(S, n - 1)
         IN  shorter \cup {Append(q, x) : q \in {r \in shorter : Len(r) = n - 1}, x \in S}

----------------------------------------------------------------------------
(* asr::watcher::Watcher and Pair. *)

NewWatcher(d) == [seen |-> FALSE, old |-> d, current |-> d]

Update(w, v) ==
    IF w.seen THEN [seen |-> TRUE, old |-> w.current, current |-> v]
    ELSE [seen |-> TRUE, old |-> v, current |-> v]

Changed(p) == p.old # p.current
Unchanged(p) == ~Changed(p)
ChangedTo(p, x) == Changed(p) /\ p.current = x
ChangedFrom(p, x) == Changed(p) /\ p.old = x

----------------------------------------------------------------------------
(* game.rs: enum Monster and enum Pickup, with their TryFromPrimitive. *)

MonsterTryFrom(id) ==
    CASE id = 350 -> "Garland"   [] id = 349 -> "Pirates"  [] id = 88  -> "Piscodemons"
      [] id = 348 -> "Astos"     [] id = 347 -> "Vampire"  [] id = 345 -> "Lich"
      [] id = 312 -> "EvilEye"   [] id = 343 -> "Kraken"   [] id = 239 -> "BlueDragon"
      [] id = 342 -> "Tiamat"    [] id = 344 -> "Marilith" [] id = 197 -> "DeathEye"
      [] id = 338 -> "Lich2"     [] id = 339 -> "Marilith2" [] id = 340 -> "Kraken2"
      [] id = 341 -> "Tiamat2"   [] id = 346 -> "Chaos"
      [] OTHER -> "Err"

PickupTryFrom(id) ==
    CASE id = 44 -> "Lute"       [] id = 4  -> "Ship"      [] id = 45 -> "Crown"
      [] id = 46 -> "CrystalEye" [] id = 47 -> "Tonic"     [] id = 48 -> "MysticKey"
      [] id = 49 -> "Nitro"      [] id = 52 -> "StarRuby"  [] id = 53 -> "EarthRod"
      [] id = 60 -> "Canoe"      [] id = 54 -> "LeviStone" [] id = 3  -> "AirShip"
      [] id = 57 -> "WarpCube"   [] id = 58 -> "BottledFaerie" [] id = 59 -> "Oxyale"
      [] id = 51 -> "RosettaStone" [] id = 55 -> "Chime"
      [] OTHER -> "Err"

(* Option<SplitOn> and Option<Action>, as returned by a poll. *)
NoSplit == [kind |-> "None", id |-> "-"]
MonsterSplit(m) == [kind |-> "Monster", id |-> m]
PickupSplit(p) == [kind |-> "Pickup", id |-> p]
FieldSplit(f) == [kind |-> "Field", id |-> f]

NoMonster == "NoMonster"
NoPickup == "NoPickup"
NotCalled == "NotCalled"

----------------------------------------------------------------------------
(* game.rs: Game. *)

(* data.rs, Battles::active: a failed read of the flag is unwrap_or_default, *)
(* false. ok tells whether the read succeeded, value what it read.          *)
BattlesActive(ok, value) == IF ok THEN value ELSE FALSE

NoInfo == [ok |-> FALSE, playing |-> FALSE, encounter_id |-> 0, result |-> "None"]
NoInventory == [ok |-> FALSE, key_items |-> <<>>, vehicles |-> <<>>]
NoSample == [none |-> TRUE]
NoFight == [on |-> FALSE, over |-> FALSE, won |-> FALSE, hits |-> 0]
NoInsert == [called |-> FALSE, ord |-> -1, before |-> {}, prior |-> {}, tried |-> {},
             inserted |-> FALSE]

(* Game::battle_check: the watchers after the call, the monster returned *)
(* (NoMonster for None) and the return statement that was reached.       *)
BattleCheckOut(ib, bp, mon, site) ==
    [in_battle |-> ib, battle_playing |-> bp, mon |-> mon, site |-> site]

BattleEndedMutant(mon, playing, early) ==
    IF ~early /\ mon # "Chaos"
    THEN [mon |-> mon, site |-> "ended"]
    ELSE [mon |-> NoMonster, site |-> "none"]

BattleEndedResetMutant(mon, playing, early) ==
    IF ChangedTo(playing, FALSE)
    THEN [mon |-> mon, site |-> "reset"]
    ELSE IF ~early /\ mon # "Chaos"
         THEN [mon |-> mon, site |-> "ended"]
         ELSE [mon |-> NoMonster, site |-> "none"]

(* Lines 103-114: the branch taken when in_battle changed to false. *)
BattleEnded(mon, playing, early) ==
    IF ChangedTo(playing, FALSE)
    THEN [mon |-> NoMonster, site |-> "reset"]
    ELSE IF ~early /\ mon # "Chaos"
         THEN [mon |-> mon, site |-> "ended"]
         ELSE [mon |-> NoMonster, site |-> "none"]

BattleDoneMutant(mon, playing, result, early) ==
    IF ChangedTo(playing, FALSE) /\ result = "Win"
    THEN [mon |-> mon, site |-> IF mon = "Chaos" THEN "done_chaos" ELSE "done_early"]
    ELSE [mon |-> NoMonster, site |-> "none"]

BattleDoneSteadyMutant(mon, playing, result, early) ==
    IF playing.current = FALSE /\ result = "Win"
    THEN IF mon = "Chaos" THEN [mon |-> mon, site |-> "done_chaos"]
         ELSE IF early THEN [mon |-> mon, site |-> "done_early"]
         ELSE [mon |-> NoMonster, site |-> "none"]
    ELSE [mon |-> NoMonster, site |-> "none"]

(* Lines 115-127: the branch taken while in_battle stays true. *)
BattleDone(mon, playing, result, early) ==
    IF ChangedTo(playing, FALSE) /\ result = "Win"
    THEN IF mon = "Chaos" THEN [mon |-> mon, site |-> "done_chaos"]
         ELSE IF early THEN [mon |-> mon, site |-> "done_early"]
         ELSE [mon |-> NoMonster, site |-> "none"]
    ELSE [mon |-> NoMonster, site |-> "none"]

(* Lines 96-135, with both watchers updated: playing, inb are the pairs. *)
BattleEdges(playing, inb, mon, s) ==
    IF inb.current = FALSE /\ Unchanged(inb)
    THEN BattleCheckOut(inb, playing, NoMonster, "idle")
    ELSE IF mon = "Err" THEN BattleCheckOut(inb, playing, NoMonster, "none")
    ELSE IF ChangedTo(inb, TRUE) THEN BattleCheckOut(inb, playing, NoMonster, "none")
    ELSE IF ChangedTo(inb, FALSE)
    THEN Only({BattleCheckOut(inb, playing, r.mon, r.site) :
               r \in {BattleEnded(mon, playing, s.early)}})
    ELSE IF inb.current
    THEN Only({BattleCheckOut(inb, playing, r.mon, r.site) :
               r \in {BattleDone(mon, playing, s.info.result, s.early)}})
    ELSE BattleCheckOut(inb, playing, NoMonster, "none")

GameBattleCheckMutant(ib, bp, s) ==
    IF ~s.info.ok THEN BattleCheckOut(ib, bp, NoMonster, "unreadable")
    ELSE Only({BattleEdges(playing, inb, mon, s) :
               playing \in {IF s.early THEN Update(bp, s.info.playing)
                            ELSE Update(bp, bp.current)},
               inb \in {Update(ib, BattlesActive(s.active_ok, s.active))},
               mon \in {MonsterTryFrom(s.info.encounter_id)}})

(* Lines 80-136: Game::battle_check. *)
GameBattleCheck(ib, bp, s) ==
    IF ~s.info.ok THEN BattleCheckOut(ib, bp, NoMonster, "unreadable")
    ELSE Only({BattleEdges(playing, inb, mon, s) :
               playing \in {Update(bp, s.info.playing)},
               inb \in {Update(ib, BattlesActive(s.active_ok, s.active))},
               mon \in {MonsterTryFrom(s.info.encounter_id)}})

RECURSIVE FirstInsert(_, _)

FirstInsertMutant(seq, set) ==
    [items |-> set \cup {seq[i] : i \in 1..Len(seq)},
     item |-> IF \E i \in 1..Len(seq) : seq[i] \notin set
              THEN seq[CHOOSE i \in 1..Len(seq) :
                           seq[i] \notin set /\ \A j \in 1..(i - 1) : seq[j] \in set]
              ELSE NoPickup]

(* The loop of Game::inventory_check over the known pickups, in order: *)
(* the first one AHashSet::insert accepts is returned.                 *)
FirstInsert(seq, set) ==
    IF seq = <<>> THEN [items |-> set, item |-> NoPickup]
    ELSE IF Head(seq) \notin set
         THEN [items |-> set \cup {Head(seq)}, item |-> Head(seq)]
         ELSE FirstInsert(Tail(seq), set)

KnownPickupsMutant(inv) ==
    LET chain == inv.key_items \o inv.vehicles
    IN  [i \in 1..Len(chain) |-> PickupTryFrom(chain[i])]

(* key_items chained with vehicles, filter_map'ed through Pickup::try_from. *)
KnownPickups(inv) ==
    LET chain == inv.key_items \o inv.vehicles
    IN  SelectSeq([i \in 1..Len(chain) |-> PickupTryFrom(chain[i])],
                  LAMBDA pickup : pickup # "Err")

GameInventoryCheck(its, s) ==
    IF s.inventory.ok THEN FirstInsert(KnownPickups(s.inventory), its)
    ELSE [items |-> its, item |-> NoPickup]

(* Game::running: the whole poll, as the state after it and its results. *)
GameInventoryOut(b, i) ==
    [in_battle |-> b.in_battle, battle_playing |-> b.battle_playing,
     items |-> i.items,
     ret |-> IF i.item # NoPickup THEN PickupSplit(i.item) ELSE NoSplit,
     bret |-> [site |-> b.site, mon |-> b.mon], iret |-> i.item]

GameRunningOut(b, its, s) ==
    IF b.mon # NoMonster
    THEN [in_battle |-> b.in_battle, battle_playing |-> b.battle_playing,
          items |-> its, ret |-> MonsterSplit(b.mon),
          bret |-> [site |-> b.site, mon |-> b.mon], iret |-> NotCalled]
    ELSE Only({GameInventoryOut(b, i) : i \in {GameInventoryCheck(its, s)}})

GameRunning(ib, bp, its, s) ==
    Only({GameRunningOut(b, its, s) : b \in {GameBattleCheck(ib, bp, s)}})

GameBattleUpdatesMutant(s) ==
    IF s.info.ok THEN <<"in_battle", "battle_playing">> ELSE <<>>

(* Lines 81-95: the watcher updates of Game::battle_check, in statement order. *)
GameBattleUpdates(s) ==
    IF s.info.ok THEN <<"battle_playing", "in_battle">> ELSE <<>>

(* Lines 69-73: battle_check, then the inventory scan if it is reached; g is *)
(* the result of Game::running.                                             *)
GameUpdates(s, g) ==
    GameBattleUpdates(s) \o (IF g.iret # NotCalled THEN <<"inventory">> ELSE <<>>)

----------------------------------------------------------------------------
(* splits.rs: Delayed and Progress. *)

K == 60     \* the amount Progress::running passes to Delayed::set

(* Delayed::set: NonZeroU32::new(amount) is None for 0, which delay = 0 models. *)
DelayedSet(d, a, amount, act) == [delay |-> amount, action |-> act]

DelayedTickMutant(d, a) ==
    IF d = 0 THEN [delay |-> d, action |-> a, out |-> NoSplit, panic |-> FALSE]
    ELSE IF d - 1 # 0
         THEN [delay |-> d - 1, action |-> NoSplit, out |-> NoSplit, panic |-> FALSE]
         ELSE [delay |-> 0, action |-> NoSplit, out |-> a, panic |-> a = NoSplit]

(* Delayed::tick: out is the action returned (NoSplit for None); panic is *)
(* the failed expect("double tick").                                      *)
DelayedTick(d, a) ==
    IF d = 0 THEN [delay |-> d, action |-> a, out |-> NoSplit, panic |-> FALSE]
    ELSE IF d - 1 # 0
         THEN [delay |-> d - 1, action |-> a, out |-> NoSplit, panic |-> FALSE]
         ELSE [delay |-> 0, action |-> NoSplit, out |-> a, panic |-> a = NoSplit]

(* Progress::running, with the Game and the Delayed it owns.     *)
(* Lines 31-38: the event g of Game::running, after the tick t. *)
ProgressEvent(t, g) ==
    IF g.ret = MonsterSplit("Chaos")
    THEN Only({[in_battle |-> g.in_battle, battle_playing |-> g.battle_playing,
                items |-> g.items, delay |-> set.delay, action |-> set.action,
                panic |-> FALSE, ret |-> NoSplit, bret |-> g.bret, iret |-> g.iret,
                lastSet |-> IF t.delay # 0 THEN "pending" ELSE "idle"] :
               set \in {DelayedSet(t.delay, t.action, K, g.ret)}})
    ELSE [in_battle |-> g.in_battle, battle_playing |-> g.battle_playing,
          items |-> g.items, delay |-> t.delay, action |-> t.action,
          panic |-> FALSE, ret |-> g.ret, bret |-> g.bret, iret |-> g.iret,
          lastSet |-> "none"]

ProgressTicked(t, ib, bp, its, s) ==
    IF t.out # NoSplit \/ t.panic
    THEN [in_battle |-> ib, battle_playing |-> bp, items |-> its,
          delay |-> t.delay, action |-> t.action, panic |-> t.panic,
          ret |-> t.out, bret |-> [site |-> NotCalled, mon |-> NoMonster],
          iret |-> NotCalled, lastSet |-> "none"]
    ELSE Only({ProgressEvent(t, g) : g \in {GameRunning(ib, bp, its, s)}})

ProgressRunningMutant(ib, bp, its, d, a, s) ==
    Only({IF t.out # NoSplit \/ t.panic
          THEN [in_battle |-> g.in_battle, battle_playing |-> g.battle_playing,
                items |-> g.items, delay |-> t.delay, action |-> t.action,
                panic |-> t.panic, ret |-> t.out, bret |-> g.bret, iret |-> g.iret,
                lastSet |-> "none"]
          ELSE ProgressEvent(t, g) :
          t \in {DelayedTick(d, a)}, g \in {GameRunning(ib, bp, its, s)}})

(* Progress::running *)
ProgressRunning(ib, bp, its, d, a, s) ==
    Only({ProgressTicked(t, ib, bp, its, s) : t \in {DelayedTick(d, a)}})

(* age: polls made since Game::running reported Chaos, for the oldest report *)
(* not yet K polls old; -1 when there is none.                               *)
NextAge(a, reported) ==
    IF a >= 0 /\ a < K THEN a + 1
    ELSE IF reported THEN 0 ELSE -1

----------------------------------------------------------------------------
(* lib.rs: SplitOn, Item, Location, EnumSet. *)

SplitOnNames ==
    << "Garland", "Lute", "Pirates", "Ship", "MarshShop", "MarshCave", "Piscodemons",
       "Crown", "Astos", "CrystalEye", "Tonic", "MysticKey", "Nitro", "Firaga",
       "Vampire", "StarRuby", "EarthRod", "Lich", "Canoe", "EvilEye", "LeviStone",
       "IceCave", "AirShip", "WarpCube", "WaterfallCave", "BottledFaerie", "Oxyale",
       "RosettaStone", "Kraken", "Chime", "BlueDragon", "FlyingFortress", "Tiamat",
       "Marilith", "DeathEye", "ChaosShrine", "Lich2", "Marilith2", "Kraken2",
       "Tiamat2", "Chaos" >>

ItemNames ==
    << "Lute", "Ship", "Crown", "CrystalEye", "Tonic", "MysticKey", "Nitro",
       "StarRuby", "EarthRod", "Canoe", "LeviStone", "AirShip", "WarpCube",
       "BottledFaerie", "Oxyale", "RosettaStone", "Chime" >>

IndexOf(names, n) == CHOOSE i \in 1..Len(names) : names[i] = n

(* impl EnumSetMember for SplitOn: the u8 discriminant, the declaration index. *)
SplitOnOrdinal(split) == IndexOf(SplitOnNames, split) - 1

(* impl EnumSetMember for Item: the ordinal of an Item, below 64 and distinct. *)
ItemOrdinal(item) == IndexOf(ItemNames, item) - 1

EnumSetInsertMutant(bits, ord) ==
    IF ord < 0 THEN [bits |-> bits, inserted |-> FALSE]
    ELSE IF ord > 64 THEN [bits |-> bits, inserted |-> FALSE]
    ELSE [bits |-> bits \cup {ord}, inserted |-> ord \notin bits]

(* EnumSet::insert on a bitset held as the set of its one bits. An ordinal *)
(* of -1 stands for ordinal() = None.                                      *)
EnumSetInsert(bits, ord) ==
    IF ord < 0 THEN [bits |-> bits, inserted |-> FALSE]
    ELSE IF ord >= 64 THEN [bits |-> bits, inserted |-> FALSE]
    ELSE [bits |-> bits \cup {ord}, inserted |-> ord \notin bits]

(* SplitOn::from_watcher *)
FromWatcher(pair) ==
    CASE pair.old = "ElfenheimItemShop" /\ pair.current = "Elfenheim" -> "MarshShop"
      [] pair.old = "WorldMap" /\ pair.current = "MarshCave1" -> "MarshCave"
      [] pair.old = "MelmondBMShop" /\ pair.current = "Melmond" -> "Firaga"
      [] pair.old = "IceCave1" /\ pair.current = "WorldMap" -> "IceCave"
      [] pair.old = "WaterfallCave" /\ pair.current = "WorldMap" -> "WaterfallCave"
      [] pair.old = "MirageTower3" /\ pair.current = "FlyingFortress" -> "FlyingFortress"
      [] pair.old = "ChaosShrine3" /\ pair.current = "ChaosShrine2" -> "ChaosShrine"
      [] OTHER -> "NoField"

(* Location::has_key_item *)
HasKeyItem(loc) ==
    loc \in { "CorneliaThrone", "Pravoka", "MarshCave3", "WesternKeep", "MatoyaCave",
              "ElvenCastle", "CastleCornelia", "EarthCave3", "SageCave", "CrescentLake",
              "IceCave2", "AirHangar", "WaterfallCave", "OasisShop", "Gaia",
              "Underwater5", "Lufenia" }

----------------------------------------------------------------------------
(* lib.rs: Splits. *)

F32Max == 1000000   \* f32::MAX, above every elapsed time and every deadline
Frames == 120       \* const FRAMES
Fps == 60           \* const FPS

NoEncounter == "NoEncounter"
NoLocation == "NoLocation"

SplitsBattleOut(ib, br, ce, kind, mon, site) ==
    [in_battle |-> ib, battle_result |-> br, chaos_end |-> ce,
     kind |-> kind, mon |-> mon, site |-> site]

ChaosCheckMutant(result, ce, time) ==
    LET armed == IF ChangedTo(result, "Win") THEN time + (Frames \div Fps) ELSE ce
    IN  IF Unchanged(result) /\ result.current = "Win" /\ armed # F32Max
        THEN [chaos_end |-> F32Max, fire |-> TRUE]
        ELSE [chaos_end |-> armed, fire |-> FALSE]

(* Lines 718-738: the deadline kept in chaos_end while Chaos is fought. *)
ChaosCheck(result, ce, time) ==
    LET armed == IF ChangedTo(result, "Win") THEN time + (Frames \div Fps) ELSE ce
    IN  IF Unchanged(result) /\ result.current = "Win" /\ time > armed
        THEN [chaos_end |-> F32Max, fire |-> TRUE]
        ELSE [chaos_end |-> armed, fire |-> FALSE]

SplitsBattleEndedMutant(monster, result, split) ==
    IF ChangedFrom(result, "Win") /\ split = "BattleEnd"
    THEN [kind |-> "Ok", mon |-> monster, site |-> "ended"]
    ELSE [kind |-> "None", mon |-> NoMonster, site |-> "ended_none"]

(* Lines 695-711: the branch taken when in_battle changed to false. *)
SplitsBattleEnded(monster, result, split) ==
    IF ChangedFrom(result, "Win") /\ split = "BattleEnd" /\ monster # "Chaos"
    THEN [kind |-> "Ok", mon |-> monster, site |-> "ended"]
    ELSE [kind |-> "None", mon |-> NoMonster, site |-> "ended_none"]

DeathAnimationMutant(monster, result, split) ==
    IF result.current = "Win" /\ split = "DeathAnimation"
    THEN [kind |-> "Ok", mon |-> monster, site |-> "death_animation"]
    ELSE [kind |-> "None", mon |-> NoMonster, site |-> "none"]

(* Lines 740-746 *)
DeathAnimation(monster, result, split) ==
    IF ChangedTo(result, "Win") /\ split = "DeathAnimation"
    THEN [kind |-> "Ok", mon |-> monster, site |-> "death_animation"]
    ELSE [kind |-> "None", mon |-> NoMonster, site |-> "none"]

(* Lines 713-746: the battle goes on; c is the ChaosCheck, d the DeathAnimation. *)
SplitsBattleGoesOn(inb, result, ce, c, d, s) ==
    IF s.encounter = "Chaos" /\ c.fire
    THEN SplitsBattleOut(inb, result, c.chaos_end, "Ok", "Chaos", "chaos_delay")
    ELSE SplitsBattleOut(inb, result,
                         IF s.encounter = "Chaos" THEN c.chaos_end ELSE ce,
                         d.kind, d.mon, d.site)

(* Lines 685-746: the encounter was read and battle_result updated. *)
SplitsBattleEdges(inb, result, ce, s) ==
    IF ChangedTo(inb, TRUE)
    THEN SplitsBattleOut(inb, result, ce, "None", NoMonster, "started")
    ELSE IF ChangedTo(inb, FALSE)
    THEN Only({SplitsBattleOut(inb, result, ce, e.kind, e.mon, e.site) :
               e \in {SplitsBattleEnded(s.encounter, result, s.split)}})
    ELSE Only({SplitsBattleGoesOn(inb, result, ce, c, d, s) :
               c \in {ChaosCheck(result, ce, s.time)},
               d \in {DeathAnimation(s.encounter, result, s.split)}})

SplitsBattleSampled(inb, br, ce, s) ==
    IF inb.current = FALSE /\ Unchanged(inb)
    THEN SplitsBattleOut(inb, br, ce, "NoBattle", NoMonster, "no_battle")
    ELSE IF s.encounter = NoEncounter
    THEN SplitsBattleOut(inb, br, ce, "None", NoMonster, "no_encounter")
    ELSE Only({SplitsBattleEdges(inb, result, ce, s) :
               result \in {Update(br, s.result)}})

(* Splits::battle_check: kind is "None", "NoBattle" (Some(Err(NoBattle))) *)
(* or "Ok" (Some(Ok(mon))).                                              *)
SplitsBattleCheck(ib, br, ce, s) ==
    Only({SplitsBattleSampled(inb, br, ce, s) :
          inb \in {Update(ib, BattlesActive(s.active_ok, s.active))}})

(* Splits::field_check *)
FieldCheck(loc, s) ==
    IF s.location = NoLocation
    THEN [location |-> loc, kind |-> "None", split |-> "NoField"]
    ELSE Only({[location |-> l, kind |-> IF f # "NoField" THEN "Ok" ELSE "Err",
                split |-> f] :
               l \in {Update(loc, s.location)},
               f \in {FromWatcher(Update(loc, s.location))}})

(* Iterator::find(|item| self.items.insert(item)) *)
RECURSIVE FindInsert(_, _)
FindInsert(seq, bits) ==
    IF seq = <<>> THEN [items |-> bits, item |-> NoPickup]
    ELSE Only({IF i.inserted THEN [items |-> i.bits, item |-> Head(seq)]
               ELSE FindInsert(Tail(seq), i.bits) :
               i \in {EnumSetInsert(bits, ItemOrdinal(Head(seq)))}})

SplitsInventoryCheckMutant(bits, s) ==
    Only({IF v.item # NoPickup THEN v ELSE FindInsert(s.key_items, v.items) :
          v \in {FindInsert(s.vehicles, bits)}})

(* Splits::inventory_check: the key items, then the vehicles. *)
SplitsInventoryCheck(bits, s) ==
    Only({IF k.item # NoPickup THEN k ELSE FindInsert(s.vehicles, k.items) :
          k \in {FindInsert(s.key_items, bits)}})

SplitCheckInventoryMutant(base, f, bits, s) ==
    Only({[base EXCEPT !.location = f.location, !.items = i.items,
                       !.iret = i.item,
                       !.split = IF i.item # NoPickup THEN PickupSplit(i.item)
                                 ELSE NoSplit] :
          i \in {SplitsInventoryCheck(bits, s)}})

(* Lines 648-672: the inventory check at the location f found. *)
SplitCheckInventory(base, f, bits, s) ==
    IF HasKeyItem(f.location.current)
    THEN Only({[base EXCEPT !.location = f.location, !.items = i.items,
                            !.iret = i.item,
                            !.split = IF i.item # NoPickup THEN PickupSplit(i.item)
                                      ELSE NoSplit] :
               i \in {SplitsInventoryCheck(bits, s)}})
    ELSE [base EXCEPT !.location = f.location]

(* Lines 643-672: no battle; the field check, then the inventory check. *)
SplitCheckField(base, f, bits, s) ==
    IF f.kind = "None" THEN base
    ELSE IF f.kind = "Ok"
    THEN [base EXCEPT !.location = f.location, !.split = FieldSplit(f.split)]
    ELSE SplitCheckInventory(base, f, bits, s)

SplitCheckBattleMutant(b, base, loc, bits, s) ==
    IF b.kind = "None" THEN base
    ELSE IF b.kind = "Ok"
    THEN Only({[base EXCEPT !.location = f.location, !.split = MonsterSplit(b.mon)] :
               f \in {FieldCheck(loc, s)}})
    ELSE Only({SplitCheckField(base, f, bits, s) : f \in {FieldCheck(loc, s)}})

(* Lines 618-641: base is the state when split_check returns None here. *)
SplitCheckBattle(b, base, loc, bits, s) ==
    IF b.kind = "None" THEN base
    ELSE IF b.kind = "Ok" THEN [base EXCEPT !.split = MonsterSplit(b.mon)]
    ELSE Only({SplitCheckField(base, f, bits, s) : f \in {FieldCheck(loc, s)}})

SplitCheckBase(b, loc, bits) ==
    [in_battle |-> b.in_battle, battle_result |-> b.battle_result,
     chaos_end |-> b.chaos_end, location |-> loc, items |-> bits, split |-> NoSplit,
     bret |-> [site |-> b.site, mon |-> b.mon], iret |-> NotCalled]

(* Splits::split_check *)
SplitCheck(ib, br, loc, bits, ce, s) ==
    Only({Only({SplitCheckBattle(b, base, loc, bits, s) :
                base \in {SplitCheckBase(b, loc, bits)}}) :
          b \in {SplitsBattleCheck(ib, br, ce, s)}})

SplitsSeenMutant(c, sn) ==
    IF c.split = NoSplit
    THEN [state |-> c, seen |-> sn, ret |-> NoSplit]
    ELSE Only({[state |-> c, seen |-> ins.bits, ret |-> c.split] :
               ins \in {EnumSetInsert(sn, SplitOnOrdinal(c.split.id))}})

(* The watcher updates of one Splits::split_check, in statement order: line *)
(* 680, line 688, line 751 and the inventory scan of line 649; c is the     *)
(* result of split_check.                                                   *)
SplitsUpdates(s, c) ==
    <<"in_battle">>
    \o (IF c.bret.site \notin {"no_battle", "no_encounter"}
        THEN <<"battle_result">> ELSE <<>>)
    \o (IF c.bret.site = "no_battle" /\ s.location # NoLocation
        THEN <<"location">> ELSE <<>>)
    \o (IF c.iret # NotCalled THEN <<"inventory">> ELSE <<>>)

(* Lines 613-614: the seen-split set decides whether the split c is returned. *)
SplitsSeen(c, sn) ==
    IF c.split = NoSplit
    THEN [state |-> c, seen |-> sn, ret |-> NoSplit]
    ELSE Only({[state |-> c, seen |-> ins.bits,
                ret |-> IF ins.inserted THEN c.split ELSE NoSplit] :
               ins \in {EnumSetInsert(sn, SplitOnOrdinal(c.split.id))}})

(* Splits::check: split_check, then the seen-split set. *)
SplitsCheck(ib, br, loc, bits, sn, ce, s) ==
    Only({SplitsSeen(c, sn) : c \in {SplitCheck(ib, br, loc, bits, ce, s)}})

----------------------------------------------------------------------------
(* lib.rs: main_loop and Title. *)

(* timer::state(); main_loop matches NotRunning and Running and leaves the *)
(* other states to the wildcard arm.                                       *)
TimerStates == {"NotRunning", "Running", "Paused", "Ended"}

Continue == [flow |-> "Continue", action |-> "-", split |-> NoSplit]
BreakNone == [flow |-> "Break", action |-> "None", split |-> NoSplit]
BreakStart == [flow |-> "Break", action |-> "Start", split |-> NoSplit]
BreakSplit(split) == [flow |-> "Break", action |-> "Split", split |-> split]

(* Title::new. *)
TitleNew == NewWatcher(FALSE)

(* Splits::new. *)
SplitsNew ==
    [in_battle |-> NewWatcher(FALSE), battle_result |-> NewWatcher("None"),
     location |-> NewWatcher(NoLocation), items |-> {}, seen |-> {},
     chaos_end |-> F32Max]

(* What a call of main_loop leaves: the State variant, its Title or Splits, *)
(* and the ControlFlow returned. The payload of the variant that is not     *)
(* the current one does not exist in the program; it is left as it was.     *)
MainLoopOut(st, title, sp, fl) ==
    [state |-> st, title |-> title, splits |-> sp, flow |-> fl,
     bret |-> [site |-> NotCalled, mon |-> NoMonster], iret |-> NotCalled]

MainLoopRunningWildcardMutant(title, sp, timer, s) ==
    IF timer # "Running"
    THEN MainLoopOut("NotRunning", TitleNew, sp, Continue)
    ELSE Only({[MainLoopOut("Running", title,
                            [in_battle |-> c.state.in_battle,
                             battle_result |-> c.state.battle_result,
                             location |-> c.state.location,
                             items |-> c.state.items,
                             seen |-> c.seen,
                             chaos_end |-> c.state.chaos_end],
                            IF c.ret = NoSplit THEN BreakNone ELSE BreakSplit(c.ret))
                   EXCEPT !.bret = c.state.bret, !.iret = c.state.iret] :
               c \in {SplitsCheck(sp.in_battle, sp.battle_result, sp.location,
                                  sp.items, sp.seen, sp.chaos_end, s)}})

(* Lines 324-337: the arm State::Running(splits). *)
MainLoopRunning(title, sp, timer, s) ==
    IF timer = "NotRunning"
    THEN MainLoopOut("NotRunning", TitleNew, sp, Continue)
    ELSE IF timer = "Running"
    THEN Only({[MainLoopOut("Running", title,
                            [in_battle |-> c.state.in_battle,
                             battle_result |-> c.state.battle_result,
                             location |-> c.state.location,
                             items |-> c.state.items,
                             seen |-> c.seen,
                             chaos_end |-> c.state.chaos_end],
                            IF c.ret = NoSplit THEN BreakNone ELSE BreakSplit(c.ret))
                   EXCEPT !.bret = c.state.bret, !.iret = c.state.iret] :
               c \in {SplitsCheck(sp.in_battle, sp.battle_result, sp.location,
                                  sp.items, sp.seen, sp.chaos_end, s)}})
    ELSE MainLoopOut("Running", title, sp, BreakNone)

MainLoopNotRunningLevelMutant(title, sp, timer, fade) ==
    IF timer = "Running"
    THEN MainLoopOut("Running", title, SplitsNew, Continue)
    ELSE IF timer = "NotRunning"
    THEN Only({IF f.current
               THEN MainLoopOut("Running", f, SplitsNew, BreakStart)
               ELSE MainLoopOut("NotRunning", f, sp, BreakNone) :
               f \in {Update(title, fade)}})
    ELSE MainLoopOut("NotRunning", title, sp, BreakNone)

MainLoopNotRunningSpinMutant(title, sp, timer, fade) ==
    IF timer = "Running"
    THEN MainLoopOut("NotRunning", title, sp, Continue)
    ELSE IF timer = "NotRunning"
    THEN Only({IF ChangedTo(f, TRUE)
               THEN MainLoopOut("Running", f, SplitsNew, BreakStart)
               ELSE MainLoopOut("NotRunning", f, sp, BreakNone) :
               f \in {Update(title, fade)}})
    ELSE MainLoopOut("NotRunning", title, sp, BreakNone)

MainLoopNotRunningMutant(title, sp, timer, fade) ==
    IF timer = "Running"
    THEN MainLoopOut("Running", title, sp, Continue)
    ELSE IF timer = "NotRunning"
    THEN Only({IF ChangedTo(f, TRUE)
               THEN MainLoopOut("Running", f, SplitsNew, BreakStart)
               ELSE MainLoopOut("NotRunning", f, sp, BreakNone) :
               f \in {Update(title, fade)}})
    ELSE MainLoopOut("NotRunning", title, sp, BreakNone)

(* Lines 312-323: the arm State::NotRunning(title); fade is what *)
(* data.has_fade_out() returns.                                  *)
MainLoopNotRunning(title, sp, timer, fade) ==
    IF timer = "Running"
    THEN MainLoopOut("Running", title, SplitsNew, Continue)
    ELSE IF timer = "NotRunning"
    THEN Only({IF ChangedTo(f, TRUE)
               THEN MainLoopOut("Running", f, SplitsNew, BreakStart)
               ELSE MainLoopOut("NotRunning", f, sp, BreakNone) :
               f \in {Update(title, fade)}})
    ELSE MainLoopOut("NotRunning", title, sp, BreakNone)

(* main_loop. *)
MainLoop(st, title, sp, timer, fade, s) ==
    IF st = "NotRunning" THEN MainLoopNotRunning(title, sp, timer, fade)
    ELSE MainLoopRunning(title, sp, timer, s)

----------------------------------------------------------------------------
(* The input universes. *)

GameInfos(ids, results) ==
    {NoInfo} \cup [ok : {TRUE}, playing : BOOLEAN, encounter_id : ids, result : results]

GameInventories(keys, nk, vehicles, nv) ==
    {NoInventory} \cup
    [ok : {TRUE}, key_items : SeqsUpTo(keys, nk), vehicles : SeqsUpTo(vehicles, nv)]

(* Battles against Garland (350), Chaos (346) and an unknown encounter (1). *)
GameBattleSamples ==
    [info : GameInfos({350, 346, 1}, {"Win", "Lose"}),
     active_ok : {TRUE}, active : BOOLEAN,
     inventory : GameInventories({44}, 1, {}, 0), early : BOOLEAN]

(* Lute (44), Crown (45), Ship (4) and an unknown vehicle (7), out of battle. *)
GameInventorySamples ==
    [info : {NoInfo, [NoInfo EXCEPT !.ok = TRUE, !.encounter_id = 350]},
     active_ok : {TRUE}, active : {FALSE},
     inventory : GameInventories({44, 45}, MaxKeyItems, {4, 7}, MaxVehicles),
     early : {FALSE}]

(* Won battles against Garland and Chaos, with the Lute in the inventory. *)
ProgressSamples ==
    [info : GameInfos({350, 346}, {"Win"}), active_ok : {TRUE}, active : BOOLEAN,
     inventory : {[ok |-> TRUE, key_items |-> <<44>>, vehicles |-> <<>>]},
     early : {FALSE}]

(* Battles against Garland and Chaos; the battle time moves in Chaos battles. *)
SplitsBattleSamples ==
    [active_ok : {TRUE}, active : BOOLEAN, encounter : {NoEncounter, "Garland"},
     result : {"None", "Win"}, time : {0}, location : {"Elfenheim"},
     key_items : {<<>>}, vehicles : {<<>>}, split : {"BattleEnd", "DeathAnimation"}]
    \cup
    [active_ok : {TRUE}, active : BOOLEAN, encounter : {"Chaos"},
     result : {"None", "Win"}, time : 0..MaxTime, location : {"Elfenheim"},
     key_items : {<<>>}, vehicles : {<<>>}, split : {"BattleEnd", "DeathAnimation"}]

(* The battle against Chaos with BattleSplit::BattleEnd. *)
SplitsChaosSamples ==
    [active_ok : {TRUE}, active : BOOLEAN, encounter : {"Chaos"},
     result : {"None", "Win"}, time : 0..MaxTime, location : {"Elfenheim"},
     key_items : {<<>>}, vehicles : {<<>>}, split : {"BattleEnd"}]

(* Battles against Garland (350) and the Pirates (349) while reads of the *)
(* battle-active flag may fail.                                          *)
GameReadSamples ==
    [info : GameInfos({350, 349}, {"Win"}), active_ok : BOOLEAN, active : BOOLEAN,
     inventory : {NoInventory}, early : {FALSE}]

(* The same in Pravoka, with the Lute in the inventory. *)
SplitsReadSamples ==
    [active_ok : BOOLEAN, active : BOOLEAN, encounter : {"Garland", "Pirates"},
     result : {"None", "Win"}, time : {0}, location : {"Pravoka"},
     key_items : {<<"Lute">>}, vehicles : {<<>>}, split : {"BattleEnd"}]

(* Out of battle: the way out of the Elfenheim item shop, and Pravoka, where *)
(* Lute, Crown and Ship are in the inventory.                               *)
SplitsFieldSamples ==
    [active_ok : {TRUE}, active : {FALSE}, encounter : {NoEncounter},
     result : {"None"}, time : {0},
     location : {NoLocation, "ElfenheimItemShop", "Elfenheim"},
     key_items : {<<>>}, vehicles : {<<>>}, split : {"BattleEnd"}]
    \cup
    [active_ok : {TRUE}, active : {FALSE}, encounter : {NoEncounter},
     result : {"None"}, time : {0},
     location : {"Pravoka"},
     key_items : SeqsUpTo({"Lute", "Crown"}, MaxKeyItems),
     vehicles : SeqsUpTo({"Ship"}, MaxVehicles), split : {"BattleEnd"}]

----------------------------------------------------------------------------
(* The state after construction: Game::new, Progress::new, Splits::new. *)

----------------------------------------------------------------------------
(* data.rs: pointers, arrays and maps in the memory of the game. *)

ArrayData == 32     \* Array::<T>::DATA = 0x20
EntrySize == 24     \* size_of::<Entry<u32, Pointer<OwnedItemData>>>(), repr(C)

PointerSize == 8    \* size_of::<Pointer<T>>(): one Address64
U32Size == 4        \* size_of::<u32>()

(* Option::None of a read. *)
ReadNone == [read |-> "failed"]

(* MemReader::read: the value at addr, None where the memory is unreadable. *)
MemRead(m, addr) == IF addr \in DOMAIN m THEN m[addr] ELSE ReadNone

(* Pointer::read *)
PointerRead(p, m) == IF p = 0 THEN ReadNone ELSE MemRead(m, p)

(* Pointer::read: the addresses it asks the reader for. *)
PointerReadsMutant(p) == <<p>>

PointerReads(p) == IF p = 0 THEN <<>> ELSE <<p>>

(* a * b in usize. The crate is built for wasm32 (no_std with asr::async_main, *)
(* lib.rs 1-19), where usize has 32 bits: overflow says whether the product   *)
(* exceeds them, value is the product modulo 2^32, computed in two 16-bit     *)
(* limbs for a < 2^15.                                                        *)
UsizeMul(a, b) ==
    LET lo == a * (b % 65536)
        hi == (a * (b \div 65536)) + (lo \div 65536)
    IN  [overflow |-> hi >= 65536, value |-> ((hi % 65536) * 65536) + (lo % 65536)]

(* Before Pointer<Map>::iter is called; "none" once it returned None. *)
NewIter == [state |-> "new", pos |-> 0, end |-> 0, n |-> 0]

NoIter == [state |-> "none", pos |-> 0, end |-> 0, n |-> 0]

(* The call panicked: "attempt to multiply with overflow". *)
PanicIter == [state |-> "panic", pos |-> 0, end |-> 0, n |-> 0]

ArrayIterMutant(p, m, size_of, checks) ==
    LET array == PointerRead(p, m)
        bytes == UsizeMul(size_of, array.size)
    IN  [reads |-> PointerReads(p),
         it |-> IF array = ReadNone
                THEN [state |-> "some", pos |-> p + ArrayData,
                      end |-> p + ArrayData + size_of, n |-> 0]
                ELSE IF bytes.overflow /\ checks THEN PanicIter
                ELSE [state |-> "some", pos |-> p + ArrayData,
                      end |-> p + ArrayData + bytes.value, n |-> 0]]

(* Pointer<Array<T>>::iter for elements of size_of bytes: the iterator and *)
(* the reads of the call. checks says whether the build has overflow       *)
(* checks (a debug build) or wraps (a release build).                      *)
ArrayIter(p, m, size_of, checks) ==
    LET array == PointerRead(p, m)
        bytes == UsizeMul(size_of, array.size)
    IN  [reads |-> PointerReads(p),
         it |-> IF array = ReadNone THEN NoIter
                ELSE IF bytes.overflow /\ checks THEN PanicIter
                ELSE [state |-> "some", pos |-> p + ArrayData,
                      end |-> p + ArrayData + bytes.value, n |-> 0]]

(* ArrayIter::next: the iterator after the call, the item it returned and *)
(* the reads of the call.                                                 *)
ArrayIterNext(it, m, size_of) ==
    IF it.pos >= it.end THEN [it |-> it, item |-> ReadNone, reads |-> <<>>]
    ELSE LET item == MemRead(m, it.pos)
         IN  IF item = ReadNone
             THEN [it |-> it, item |-> ReadNone, reads |-> <<it.pos>>]
             ELSE [it |-> [it EXCEPT !.pos = @ + size_of], item |-> item,
                   reads |-> <<it.pos>>]

ArrayGetMutant(p, m, i, size_of, checks) ==
    LET array == PointerRead(p, m)
        bytes == UsizeMul(size_of, i)
        offset == p + ArrayData + bytes.value
    IN  IF array = ReadNone
        THEN [state |-> "returned", item |-> ReadNone, reads |-> PointerReads(p)]
        ELSE IF i > array.size
        THEN [state |-> "returned", item |-> ReadNone, reads |-> PointerReads(p)]
        ELSE IF bytes.overflow /\ checks
        THEN [state |-> "panic", item |-> ReadNone, reads |-> PointerReads(p)]
        ELSE [state |-> "returned", item |-> MemRead(m, offset),
              reads |-> PointerReads(p) \o <<offset>>]

(* Pointer<Array<T>>::get for elements of size_of bytes: the Option it *)
(* returns and the reads of the call.                                  *)
ArrayGet(p, m, i, size_of, checks) ==
    LET array == PointerRead(p, m)
        bytes == UsizeMul(size_of, i)
        offset == p + ArrayData + bytes.value
    IN  IF array = ReadNone
        THEN [state |-> "returned", item |-> ReadNone, reads |-> PointerReads(p)]
        ELSE IF i >= array.size
        THEN [state |-> "returned", item |-> ReadNone, reads |-> PointerReads(p)]
        ELSE IF bytes.overflow /\ checks
        THEN [state |-> "panic", item |-> ReadNone, reads |-> PointerReads(p)]
        ELSE [state |-> "returned", item |-> MemRead(m, offset),
              reads |-> PointerReads(p) \o <<offset>>]

MapIterFilterMutant(o) == o.hash # 0 /\ o.next # 0

(* Line 499: the predicate of the filter. *)
MapIterFilter(o) == o.hash # 0 \/ o.next # 0

(* Line 499: Filter::next draws from the array until the predicate holds. *)
RECURSIVE FilterNext(_, _)
FilterNext(it, m) ==
    LET r == ArrayIterNext(it, m, EntrySize)
    IN  IF r.item = ReadNone \/ MapIterFilter(r.item) THEN r
        ELSE [FilterNext(r.it, m) EXCEPT !.reads = r.reads \o @]

(* Line 500: Take::next counts the calls down from map.size. *)
TakeNext(it, m) ==
    IF it.n = 0 THEN [it |-> it, item |-> ReadNone, reads |-> <<>>]
    ELSE FilterNext([it EXCEPT !.n = @ - 1], m)

(* Line 501: one call of next on the iterator Pointer<Map>::iter returned. *)
MapNext(it, m) ==
    LET r == TakeNext(it, m)
    IN  IF r.item = ReadNone THEN r
        ELSE [r EXCEPT !.item = <<r.item.key, r.item.value>>]

(* Pointer<Map<K, V>>::iter: the iterator and the reads of the call. *)
MapIter(p, m, checks) ==
    LET map == PointerRead(p, m)
        entries == ArrayIter(map.entries, m, EntrySize, checks)
    IN  IF map = ReadNone THEN [it |-> NoIter, reads |-> PointerReads(p)]
        ELSE [it |-> IF entries.it.state = "some"
                     THEN [entries.it EXCEPT !.n = map.size] ELSE entries.it,
              reads |-> PointerReads(p) \o entries.reads]

(* Pointer<Map<K, V>>::size: the Option it returns and the reads of the *)
(* call.                                                               *)
MapSize(p, m) ==
    LET map == PointerRead(p, m)
    IN  [item |-> IF map = ReadNone THEN ReadNone ELSE [u32 |-> map.size],
         reads |-> PointerReads(p)]

(* Items::key_items_count: 0 when the dereference fails or the size is *)
(* None.                                                               *)
KeyItemsCount(deref_ok, p, m) ==
    LET size == MapSize(p, m)
    IN  IF ~deref_ok THEN [count |-> 0, reads |-> <<>>]
        ELSE [count |-> IF size.item = ReadNone THEN 0 ELSE size.item.u32,
              reads |-> size.reads]

(* Pointer<List<T>>::iter for a list of pointers: the iterator and the *)
(* reads of the call.                                                  *)
ListIter(p, m, checks) ==
    LET list == PointerRead(p, m)
        array == ArrayIter(list.items, m, PointerSize, checks)
    IN  IF list = ReadNone THEN [it |-> NoIter, reads |-> PointerReads(p)]
        ELSE [it |-> IF array.it.state = "some"
                     THEN [array.it EXCEPT !.n = list.size] ELSE array.it,
              reads |-> PointerReads(p) \o array.reads]

(* One call of next on the iterator Pointer<List<T>>::iter returned: *)
(* Take::next over ArrayIter::next.                                  *)
ListNext(it, m) ==
    IF it.n = 0 THEN [it |-> it, item |-> ReadNone, reads |-> <<>>]
    ELSE ArrayIterNext([it EXCEPT !.n = @ - 1], m, PointerSize)

(* The closure of Items::vehicle_ids (lines 318-331) on one element of the *)
(* list: the OwnedTransportationData behind the element, the               *)
(* SaveTransportationData behind its data pointer, u32::try_from(map_id);  *)
(* item is [id |-> vehicle.id] for Some and ReadNone for None.             *)
VehicleFilter(vehicle, m) ==
    LET transport == MemRead(m, vehicle.address)
        save == MemRead(m, transport.data)
    IN  IF transport = ReadNone
        THEN [item |-> ReadNone, reads |-> <<vehicle.address>>]
        ELSE IF save = ReadNone
        THEN [item |-> ReadNone, reads |-> <<vehicle.address, transport.data>>]
        ELSE [item |-> IF save.map_id < 0 THEN ReadNone ELSE [id |-> save.id],
              reads |-> <<vehicle.address, transport.data>>]

(* One call of next on the iterator Items::vehicle_ids returns: FilterMap *)
(* over Flatten over the list's iterator; elements are drawn until the    *)
(* closure gives Some or the list's iterator gives None.                  *)
RECURSIVE VehicleIdsNext(_, _)
VehicleIdsNext(it, m) ==
    LET r == ListNext(it, m)
        v == VehicleFilter(r.item, m)
        rest == VehicleIdsNext(r.it, m)
    IN  IF r.item = ReadNone THEN r
        ELSE IF v.item # ReadNone
        THEN [it |-> r.it, item |-> v.item, reads |-> r.reads \o v.reads]
        ELSE [rest EXCEPT !.reads = r.reads \o v.reads \o @]

(* The slots of a backing array of n entries: unreadable, empty, or live *)
(* with a hash or with a next index.                                     *)
Slots(n) == [0..(n - 1) -> {"gap", "empty", "hash", "next"}]

(* Entry<K, V> of slot i. *)
Entry(kind, i) ==
    [hash |-> IF kind = "hash" THEN 1 ELSE 0, next |-> IF kind = "next" THEN 1 ELSE 0,
     key |-> i + 1, value |-> 100 + i]

(* A remote memory with a Map at 4096 whose entries are an Array at 8192, *)
(* and the pointer to the map; hdr and ahdr say which headers can be read. *)
MapImage(p, hdr, e, ahdr, sz, n, slots) ==
    [ptr |-> p,
     mem |-> [a \in (IF hdr THEN {4096} ELSE {}) \cup (IF ahdr THEN {8192} ELSE {})
                    \cup {8192 + ArrayData + EntrySize * i :
                              i \in {j \in 0..(n - 1) : slots[j] # "gap"}} |->
                 IF a = 4096 THEN [entries |-> e, size |-> sz]
                 ELSE IF a = 8192 THEN [size |-> n]
                 ELSE Only({Entry(slots[i], i) :
                            i \in {(a - 8192 - ArrayData) \div EntrySize}})]]

(* Every readable map of up to MaxSlots slots; a map of two live slots whose *)
(* backing array declares 178956971 entries (24 * 178956971 = 2^32 + 8);    *)
(* and one map of a single live slot behind null pointers and unreadable    *)
(* headers.                                                                 *)
MapImages ==
    UNION {{MapImage(4096, TRUE, 8192, TRUE, sz, n, slots) :
                sz \in 0..MaxSlots, slots \in Slots(n)} : n \in 0..MaxSlots}
    \cup
    {[MapImage(4096, TRUE, 8192, TRUE, 2, 2, [i \in 0..1 |-> "hash"])
          EXCEPT !.mem[8192].size = 178956971]}
    \cup
    {MapImage(p, hdr, e, ahdr, 1, 1, [i \in {0} |-> "hash"]) :
         p \in {0, 4096}, hdr \in BOOLEAN, e \in {0, 8192}, ahdr \in BOOLEAN}

InitState ==
    /\ beat = 0 /\ steady = FALSE /\ sample = NoSample
    /\ ret = NoSplit /\ bret = [site |-> NotCalled, mon |-> NoMonster]
    /\ iret = NotCalled /\ returned = {} /\ order = <<>> /\ fight = NoFight
    /\ lastInsert = NoInsert /\ lastTimer = NotCalled /\ spun = NotCalled
    /\ in_battle = NewWatcher(FALSE) /\ battle_playing = NewWatcher(FALSE)
    /\ items = {}
    /\ delay = 0 /\ action = NoSplit /\ panic = FALSE /\ age = -1 /\ lastSet = "none"
    /\ sp_in_battle = NewWatcher(FALSE) /\ battle_result = NewWatcher("None")
    /\ location = NewWatcher(NoLocation)
    /\ sp_items = {} /\ seen = {} /\ chaos_end = F32Max
    /\ state = "NotRunning" /\ fade_out = NewWatcher(FALSE) /\ flow = NotCalled

(* A remote memory with an Array of pointers at 8192 that declares n      *)
(* elements, and the pointer to it; element i < k can be read where      *)
(* readable[i], no other element can. Element i is the Pointer 500 + i.  *)
ArrayImage(p, ahdr, n, k, readable) ==
    [ptr |-> p,
     mem |-> [a \in (IF ahdr THEN {8192} ELSE {})
                    \cup {8192 + ArrayData + PointerSize * i :
                              i \in {j \in 0..(k - 1) : readable[j]}} |->
                 IF a = 8192 THEN [size |-> n]
                 ELSE [address |-> 500 + ((a - 8192 - ArrayData) \div PointerSize)]]]

(* Arrays of up to MaxSlots elements; arrays whose header declares 1000,  *)
(* 2^29 or 2^29 + 1 elements, of which at most the first MaxSlots can be  *)
(* read; a null pointer and an unreadable header.                         *)
ArrayImages ==
    UNION {{ArrayImage(8192, TRUE, n, n, readable) :
                readable \in [0..(n - 1) -> BOOLEAN]} : n \in 0..MaxSlots}
    \cup
    {ArrayImage(8192, TRUE, n, MaxSlots, readable) :
         n \in {1000, 536870912, 536870913},
         readable \in [0..(MaxSlots - 1) -> BOOLEAN]}
    \cup
    {ArrayImage(p, ahdr, 1, 1, [i \in {0} |-> TRUE]) :
         p \in {0, 8192}, ahdr \in BOOLEAN}

(* A remote memory with a List at 4096 of size sz whose items pointer is e, *)
(* over the memory of an array image.                                      *)
ListImage(p, hdr, e, sz, array) ==
    [ptr |-> p,
     mem |-> [a \in (IF hdr THEN {4096} ELSE {}) \cup DOMAIN array.mem |->
                 IF a = 4096 THEN [items |-> e, size |-> sz] ELSE array.mem[a]]]

(* Lists of size 0..MaxSlots over every array image, and one list behind *)
(* null pointers and unreadable headers.                                 *)
ListImages ==
    {ListImage(4096, TRUE, 8192, sz, array) :
         sz \in 0..MaxSlots, array \in {a \in ArrayImages : a.ptr # 0}}
    \cup
    {ListImage(p, hdr, e, 1, ArrayImage(8192, ahdr, 1, 1, [i \in {0} |-> TRUE])) :
         p \in {0, 4096}, hdr \in BOOLEAN, e \in {0, 8192}, ahdr \in BOOLEAN}

(* A remote memory with an Array of u32 at 8192 that declares n elements, *)
(* and the pointer to it; element i < k can be read where readable[i].    *)
(* Element i is the encounter id 350 + i.                                 *)
U32ArrayImage(p, ahdr, n, k, readable) ==
    [ptr |-> p,
     mem |-> [a \in (IF ahdr THEN {8192} ELSE {})
                    \cup {8192 + ArrayData + U32Size * i :
                              i \in {j \in 0..(k - 1) : readable[j]}} |->
                 IF a = 8192 THEN [size |-> n]
                 ELSE [u32 |-> 350 + ((a - 8192 - ArrayData) \div U32Size)]]]

(* Arrays of up to MaxSlots elements; arrays that declare fewer elements *)
(* than the MaxSlots that can be read behind the header, or 2^30 + 1; a  *)
(* null pointer and an unreadable header.                                *)
U32ArrayImages ==
    UNION {{U32ArrayImage(8192, TRUE, n, n, readable) :
                readable \in [0..(n - 1) -> BOOLEAN]} : n \in 0..MaxSlots}
    \cup
    {U32ArrayImage(8192, TRUE, n, MaxSlots, [i \in 0..(MaxSlots - 1) |-> TRUE]) :
         n \in (0..MaxSlots) \cup {1073741825}}
    \cup
    {U32ArrayImage(p, ahdr, 1, 1, [i \in {0} |-> TRUE]) :
         p \in {0, 8192}, ahdr \in BOOLEAN}

(* No remote container is iterated by a poll of these programs. *)
NoData ==
    /\ ptr = 0 /\ mem = <<>> /\ iter = NewIter /\ out = <<>> /\ reads = <<>>
    /\ index = -1 /\ count = -1

Init ==
    /\ sut \in {"game_battle", "game_inventory", "game_reads",
                "splits_battle", "splits_field", "splits_reads"}
    /\ InitState /\ NoData

InitProgress == sut = "progress" /\ InitState /\ NoData

(* One call of Game::running with the input s. beat counts the polls, so *)
(* that a poll is a step of the behaviour even when it changes nothing   *)
(* in the program.                                                       *)
GameStep(s) ==
    \E g \in {GameRunning(in_battle, battle_playing, items, s)} :
        /\ in_battle' = g.in_battle
        /\ battle_playing' = g.battle_playing
        /\ items' = g.items
        /\ ret' = g.ret /\ bret' = g.bret /\ iret' = g.iret
        /\ sample' = s /\ steady' = (sample = s) /\ beat' = 1 - beat
        /\ order' = GameUpdates(s, g)
        /\ UNCHANGED <<sut, returned, fight, lastInsert, lastTimer, spun, delayedVars, splitsVars,
                       dataVars, mainVars>>

GameBattlePoll == sut = "game_battle" /\ \E s \in GameBattleSamples : GameStep(s)

GameInventoryPoll == sut = "game_inventory" /\ \E s \in GameInventorySamples : GameStep(s)

GameReadsPoll == sut = "game_reads" /\ \E s \in GameReadSamples : GameStep(s)

(* One call of Progress::running; a panicked program makes no further call. *)
ProgressPoll ==
    /\ sut = "progress" /\ ~panic
    /\ \E s \in ProgressSamples :
         \E p \in {ProgressRunning(in_battle, battle_playing, items, delay, action, s)} :
             /\ in_battle' = p.in_battle
             /\ battle_playing' = p.battle_playing
             /\ items' = p.items
             /\ delay' = p.delay /\ action' = p.action /\ panic' = p.panic
             /\ lastSet' = p.lastSet
             /\ age' = NextAge(age, p.bret.mon = "Chaos")
             /\ ret' = p.ret /\ bret' = p.bret /\ iret' = p.iret
             /\ beat' = 1 - beat
             /\ UNCHANGED <<sut, steady, sample, returned, order, fight, lastInsert,
                            lastTimer, spun,
                            splitsVars, dataVars, mainVars>>

(* The scenarios that follow single battles. *)
WonScenarios == {"won_battle_end", "won_death_animation"}

(* The record kept of a battle: on, a battle that began with in_battle      *)
(* going false -> true is in progress or has just ended; over, its last     *)
(* poll (in_battle true -> false) was the last poll; won, a poll of it read *)
(* the result Win; hits, the polls of it on which battle_check returned a   *)
(* monster, counted up to 2. inb is in_battle after the poll of sample s.   *)
FightNext(f, inb, s, hit) ==
    IF ChangedTo(inb, TRUE)
    THEN [on |-> TRUE, over |-> FALSE, won |-> s.result = "Win",
          hits |-> IF hit THEN 1 ELSE 0]
    ELSE IF f.on /\ ~f.over /\ (inb.current \/ ChangedTo(inb, FALSE))
    THEN [on |-> TRUE, over |-> ChangedTo(inb, FALSE),
          won |-> f.won \/ s.result = "Win",
          hits |-> IF hit /\ f.hits < 2 THEN f.hits + 1 ELSE f.hits]
    ELSE NoFight

(* One call of Splits::check with the input s. *)
SplitsStep(s) ==
    \E c \in {SplitsCheck(sp_in_battle, battle_result, location, sp_items, seen,
                          chaos_end, s)} :
        /\ sp_in_battle' = c.state.in_battle
        /\ battle_result' = c.state.battle_result
        /\ location' = c.state.location
        /\ sp_items' = c.state.items
        /\ chaos_end' = c.state.chaos_end
        /\ seen' = c.seen
        /\ ret' = c.ret /\ bret' = c.state.bret /\ iret' = c.state.iret
        /\ returned' = IF c.ret = NoSplit THEN returned ELSE returned \cup {c.ret.id}
        /\ order' = SplitsUpdates(s, c.state)
        /\ sample' = s /\ steady' = (sample = s) /\ beat' = 1 - beat
        /\ fight' = IF sut \in WonScenarios
                    THEN FightNext(fight, c.state.in_battle, s,
                                   c.state.bret.mon # NoMonster)
                    ELSE fight
        /\ UNCHANGED <<sut, lastInsert, lastTimer, spun, gameVars, delayedVars, dataVars,
                       mainVars>>

SplitsBattlePoll == sut = "splits_battle" /\ \E s \in SplitsBattleSamples : SplitsStep(s)

SplitsFieldPoll == sut = "splits_field" /\ \E s \in SplitsFieldSamples : SplitsStep(s)

SplitsReadsPoll == sut = "splits_reads" /\ \E s \in SplitsReadSamples : SplitsStep(s)

SplitsChaosPoll == sut = "splits_chaos" /\ \E s \in SplitsChaosSamples : SplitsStep(s)

Next ==
    \/ GameBattlePoll \/ GameInventoryPoll \/ GameReadsPoll
    \/ SplitsBattlePoll \/ SplitsFieldPoll \/ SplitsReadsPoll

Spec == Init /\ [][Next]_vars

InitChaos == sut = "splits_chaos" /\ InitState /\ NoData

NextChaos == SplitsChaosPoll

(* game_loop polls once per tick, for ever. *)
SpecChaos == InitChaos /\ [][NextChaos]_vars /\ WF_vars(NextChaos)

(* The run starts in Pravoka; Garland is fought there and the Lute may be *)
(* in the inventory.                                                     *)
MainSamples ==
    [active_ok : {TRUE}, active : BOOLEAN, encounter : {"Garland"},
     result : {"None", "Win"}, time : {0}, location : {"Pravoka"},
     key_items : {<<>>, <<"Lute">>}, vehicles : {<<>>}, split : {"BattleEnd"}]

(* Garland is fought in Pravoka or on the way out of the Elfenheim item *)
(* shop, with the Lute in the inventory or not.                         *)
SplitsPrioritySamples ==
    [active_ok : {TRUE}, active : BOOLEAN, encounter : {"Garland"},
     result : {"None", "Win"}, time : {0}, location : {"Pravoka", "Elfenheim"},
     key_items : {<<>>, <<"Lute">>}, vehicles : {<<>>}, split : {"BattleEnd"}]
    \cup
    [active_ok : {TRUE}, active : {FALSE}, encounter : {NoEncounter},
     result : {"None"}, time : {0}, location : {"ElfenheimItemShop", "Elfenheim"},
     key_items : {<<"Lute">>}, vehicles : {<<>>}, split : {"BattleEnd"}]

(* A battle against Garland with one BattleSplit mode throughout. *)
WonSamples(mode) ==
    [active_ok : {TRUE}, active : BOOLEAN, encounter : {"Garland"},
     result : {"None", "Win", "Lose"}, time : {0}, location : {"Pravoka"},
     key_items : {<<>>}, vehicles : {<<>>}, split : {mode}]

SplitsWonPoll ==
    \/ sut = "won_battle_end" /\ \E s \in WonSamples("BattleEnd") : SplitsStep(s)
    \/ sut = "won_death_animation"
           /\ \E s \in WonSamples("DeathAnimation") : SplitsStep(s)

InitWon == sut \in WonScenarios /\ InitState /\ NoData

NextWon == SplitsWonPoll

SpecWon == InitWon /\ [][NextWon]_vars

(* What ordinal() can return: None (-1), the ordinals of Garland, Lute and *)
(* Chaos, the last bit of the u64, and the u8 values 64 and 255.          *)
Ordinals == {-1, 0, 1, 40, 63, 64, 255}

(* One call of EnumSet::insert on the seen-split set, with an item of *)
(* ordinal o.                                                         *)
EnumSetInsertCall ==
    /\ sut = "enumset"
    /\ \E o \in Ordinals :
         \E r \in {EnumSetInsert(seen, o)} :
             /\ seen' = r.bits
             /\ lastInsert' = [called |-> TRUE, ord |-> o, before |-> seen,
                               prior |-> lastInsert.tried,
                               tried |-> lastInsert.tried \cup {o},
                               inserted |-> r.inserted]
    /\ UNCHANGED <<sut, beat, steady, sample, ret, bret, iret, returned, order, fight,
                   lastTimer, spun, gameVars, delayedVars, sp_in_battle, battle_result, location,
                   sp_items, chaos_end, dataVars, mainVars>>

(* Delayed::default, then Delayed::set and Delayed::tick called in any    *)
(* order: set with an amount of 0, 1, 2 or K and one of two actions. A   *)
(* panicked program makes no further call.                               *)
DelayedSetCall ==
    /\ sut = "delayed" /\ ~panic
    /\ \E amount \in {0, 1, 2, K}, act \in {MonsterSplit("Garland"), MonsterSplit("Chaos")} :
         \E set \in {DelayedSet(delay, action, amount, act)} :
             /\ delay' = set.delay /\ action' = set.action
             /\ lastSet' = IF delay # 0 THEN "pending" ELSE "idle"
    /\ ret' = NoSplit /\ beat' = 1 - beat
    /\ UNCHANGED <<sut, steady, sample, bret, iret, returned, order, fight, lastInsert,
                   lastTimer, spun, gameVars, panic, age, splitsVars, dataVars, mainVars>>

DelayedTickCall ==
    /\ sut = "delayed" /\ ~panic
    /\ \E t \in {DelayedTick(delay, action)} :
         /\ delay' = t.delay /\ action' = t.action /\ panic' = t.panic
         /\ ret' = t.out
    /\ lastSet' = "none" /\ beat' = 1 - beat
    /\ UNCHANGED <<sut, steady, sample, bret, iret, returned, order, fight, lastInsert,
                   lastTimer, spun, gameVars, age, splitsVars, dataVars, mainVars>>

InitDelayed == sut = "delayed" /\ InitState /\ NoData

NextDelayed == DelayedSetCall \/ DelayedTickCall

SpecDelayed == InitDelayed /\ [][NextDelayed]_vars

InitEnumSet == sut = "enumset" /\ InitState /\ NoData

NextEnumSet == EnumSetInsertCall

SpecEnumSet == InitEnumSet /\ [][NextEnumSet]_vars

SplitsPriorityPoll ==
    sut = "splits_priority" /\ \E s \in SplitsPrioritySamples : SplitsStep(s)

InitPriority == sut = "splits_priority" /\ InitState /\ NoData

NextPriority == SplitsPriorityPoll

SpecPriority == InitPriority /\ [][NextPriority]_vars

(* One iteration of game_loop's loop: one call of main_loop on what the  *)
(* timer and the game show. The fade-out is read in the arm NotRunning / *)
(* NotRunning only and the battle, location and inventory in the arm     *)
(* Running / Running only; sample is the last one that was read.         *)
MainLoopStep ==
    /\ sut = "main"
    /\ \E t \in TimerStates :
       \E fade \in (IF state = "NotRunning" /\ t = "NotRunning"
                    THEN BOOLEAN ELSE {FALSE}),
          s \in (IF state = "Running" /\ t = "Running"
                 THEN MainSamples ELSE {sample}) :
         \E m \in {MainLoop(state, fade_out,
                            [in_battle |-> sp_in_battle, battle_result |-> battle_result,
                             location |-> location, items |-> sp_items, seen |-> seen,
                             chaos_end |-> chaos_end],
                            t, fade, s)} :
             /\ state' = m.state /\ fade_out' = m.title /\ flow' = m.flow
             /\ sp_in_battle' = m.splits.in_battle
             /\ battle_result' = m.splits.battle_result
             /\ location' = m.splits.location
             /\ sp_items' = m.splits.items
             /\ seen' = m.splits.seen
             /\ chaos_end' = m.splits.chaos_end
             /\ ret' = m.flow.split /\ bret' = m.bret /\ iret' = m.iret
             /\ returned' = IF m.flow.split = NoSplit THEN returned
                            ELSE returned \cup {m.flow.split.id}
             /\ sample' = s /\ beat' = 1 - beat
             /\ lastTimer' = t
             /\ spun' = IF lastTimer # NotCalled /\ flow = Continue THEN lastTimer
                        ELSE NotCalled
             /\ UNCHANGED <<sut, steady, order, fight, lastInsert, gameVars, delayedVars,
                            dataVars>>

InitMain == sut = "main" /\ InitState /\ NoData

NextMain == MainLoopStep

SpecMain == InitMain /\ [][NextMain]_vars

NextProgress == ProgressPoll

SpecProgress == InitProgress /\ [][NextProgress]_vars

(* A map somewhere in the memory of the game, not yet iterated. *)
(* What one element of the vehicle list leads to: an                   *)
(* OwnedTransportationData that can be read or not, behind it a        *)
(* SaveTransportationData that can be read or not, with a map_id of    *)
(* -1, 0 or 1.                                                         *)
VehicleStates ==
    {v \in [transport : BOOLEAN, save : BOOLEAN, map_id : {-1, 0, 1}] :
         /\ ~v.transport => ~v.save
         /\ ~v.save => v.map_id = 0}

(* A remote memory with the vehicle list at 4096, of size sz, over an array *)
(* at 8192 that declares n elements, k of them present; element i points    *)
(* to the vehicle at 500 + i, whose save data is at 600 + i and has the id  *)
(* 3 + i.                                                                   *)
VehicleImage(sz, n, k, slots, vs) ==
    LET list == ListImage(4096, TRUE, 8192, sz, ArrayImage(8192, TRUE, n, k, slots))
        transports == {500 + i : i \in {j \in 0..(k - 1) : vs[j].transport}}
        saves == {600 + i : i \in {j \in 0..(k - 1) : vs[j].save}}
    IN  [ptr |-> list.ptr,
         mem |-> [a \in DOMAIN list.mem \cup transports \cup saves |->
                     IF a \in DOMAIN list.mem THEN list.mem[a]
                     ELSE IF a \in transports THEN [data |-> a + 100]
                     ELSE [id |-> a - 597, map_id |-> vs[a - 600].map_id]]]

(* Lists of up to MaxVehicles + 1 vehicles in every state; a list of one   *)
(* vehicle whose array declares 2^29 elements; a list of two vehicles      *)
(* whose first element cannot be read; and no list behind a null pointer.  *)
VehicleImages ==
    UNION {{VehicleImage(n, n, n, [i \in 0..(n - 1) |-> TRUE], vs) :
                vs \in [0..(n - 1) -> VehicleStates]} : n \in 0..(MaxVehicles + 1)}
    \cup
    {VehicleImage(1, 536870912, 1, [i \in {0} |-> TRUE],
                  [i \in {0} |-> [transport |-> TRUE, save |-> TRUE, map_id |-> m]]) :
         m \in {-1, 1}}
    \cup
    {VehicleImage(2, 2, 2, [i \in 0..1 |-> i = 1],
                  [i \in 0..1 |-> [transport |-> TRUE, save |-> TRUE, map_id |-> 1]]),
     [ptr |-> 0, mem |-> <<>>]}

InitData ==
    /\ InitState
    /\ \/ sut \in {"data_map", "data_size"}
              /\ \E image \in MapImages : ptr = image.ptr /\ mem = image.mem
       \/ sut = "data_array" /\ \E image \in ArrayImages : ptr = image.ptr /\ mem = image.mem
       \/ sut = "data_list" /\ \E image \in ListImages : ptr = image.ptr /\ mem = image.mem
       \/ sut = "data_get" /\ \E image \in U32ArrayImages : ptr = image.ptr /\ mem = image.mem
       \/ sut = "data_vehicles"
              /\ \E image \in VehicleImages : ptr = image.ptr /\ mem = image.mem
    /\ iter = NewIter /\ out = <<>> /\ reads = <<>> /\ index = -1 /\ count = -1

(* The variables no operation on a remote container changes. *)
pollVars == <<sut, histVars, gameVars, delayedVars, splitsVars, mainVars>>

(* The items of an Option: none or one. *)
OptionItems(item) == IF item = ReadNone THEN <<>> ELSE <<item>>

(* The call of Pointer<Map<K, V>>::iter, in a build with or without *)
(* overflow checks.                                                 *)
MapIterCall ==
    /\ sut = "data_map" /\ iter.state = "new"
    /\ \E checks \in BOOLEAN :
         \E c \in {MapIter(ptr, mem, checks)} :
             iter' = c.it /\ reads' = reads \o c.reads
    /\ UNCHANGED <<pollVars, ptr, mem, out, index, count>>

(* The consumer draws the next item and stops at the first None. *)
MapIterNext ==
    /\ sut = "data_map" /\ iter.state = "some"
    /\ \E r \in {MapNext(iter, mem)} :
         /\ IF r.item = ReadNone
            THEN iter' = [r.it EXCEPT !.state = "done"] /\ out' = out
            ELSE iter' = r.it /\ out' = Append(out, r.item)
         /\ reads' = reads \o r.reads
    /\ UNCHANGED <<pollVars, ptr, mem, index, count>>

(* The call of Pointer<Array<T>>::iter on an array of pointers. *)
ArrayIterCall ==
    /\ sut = "data_array" /\ iter.state = "new"
    /\ \E checks \in BOOLEAN :
         \E c \in {ArrayIter(ptr, mem, PointerSize, checks)} :
             iter' = c.it /\ reads' = reads \o c.reads
    /\ UNCHANGED <<pollVars, ptr, mem, out, index, count>>

(* The consumer draws the next element and stops at the first None. *)
ArrayNext ==
    /\ sut = "data_array" /\ iter.state = "some"
    /\ \E r \in {ArrayIterNext(iter, mem, PointerSize)} :
         /\ IF r.item = ReadNone
            THEN iter' = [r.it EXCEPT !.state = "done"] /\ out' = out
            ELSE iter' = r.it /\ out' = Append(out, r.item)
         /\ reads' = reads \o r.reads
    /\ UNCHANGED <<pollVars, ptr, mem, index, count>>

(* The call of Pointer<List<T>>::iter on a list of pointers. *)
ListIterCall ==
    /\ sut = "data_list" /\ iter.state = "new"
    /\ \E checks \in BOOLEAN :
         \E c \in {ListIter(ptr, mem, checks)} :
             iter' = c.it /\ reads' = reads \o c.reads
    /\ UNCHANGED <<pollVars, ptr, mem, out, index, count>>

(* The consumer draws the next element and stops at the first None. *)
ListIterNext ==
    /\ sut = "data_list" /\ iter.state = "some"
    /\ \E r \in {ListNext(iter, mem)} :
         /\ IF r.item = ReadNone
            THEN iter' = [r.it EXCEPT !.state = "done"] /\ out' = out
            ELSE iter' = r.it /\ out' = Append(out, r.item)
         /\ reads' = reads \o r.reads
    /\ UNCHANGED <<pollVars, ptr, mem, index, count>>

(* Items::vehicle_ids: the dereferenced pointer to the list and the call *)
(* of iter on it (lines 307-316).                                       *)
VehicleIdsCall ==
    /\ sut = "data_vehicles" /\ iter.state = "new"
    /\ \E checks \in BOOLEAN :
         \E c \in {ListIter(ptr, mem, checks)} :
             iter' = c.it /\ reads' = reads \o c.reads
    /\ UNCHANGED <<pollVars, ptr, mem, out, index, count>>

(* The consumer draws the next vehicle id and stops at the first None. *)
VehicleIdsPull ==
    /\ sut = "data_vehicles" /\ iter.state = "some"
    /\ \E r \in {VehicleIdsNext(iter, mem)} :
         /\ IF r.item = ReadNone
            THEN iter' = [r.it EXCEPT !.state = "done"] /\ out' = out
            ELSE iter' = r.it /\ out' = Append(out, r.item.id)
         /\ reads' = reads \o r.reads
    /\ UNCHANGED <<pollVars, ptr, mem, index, count>>

(* One call of Pointer<Array<u32>>::get; Battles::encounter_id passes the *)
(* index 0.                                                              *)
ArrayGetCall ==
    /\ sut = "data_get" /\ iter.state = "new"
    /\ \E i \in 0..MaxSlots, checks \in BOOLEAN :
         \E g \in {ArrayGet(ptr, mem, i, U32Size, checks)} :
             /\ index' = i
             /\ iter' = [NewIter EXCEPT !.state = g.state]
             /\ out' = OptionItems(g.item)
             /\ reads' = reads \o g.reads
    /\ UNCHANGED <<pollVars, ptr, mem, count>>

(* One call of Items::key_items_count; the dereference of the static *)
(* field gives the pointer to the map or fails.                      *)
KeyItemsCountCall ==
    /\ sut = "data_size" /\ iter.state = "new"
    /\ \E deref_ok \in BOOLEAN :
         \E c \in {KeyItemsCount(deref_ok, ptr, mem)} :
             /\ count' = c.count
             /\ iter' = [NewIter EXCEPT !.state = IF deref_ok THEN "returned" ELSE "err"]
             /\ reads' = reads \o c.reads
    /\ UNCHANGED <<pollVars, ptr, mem, out, index>>

NextData ==
    \/ MapIterCall \/ MapIterNext
    \/ ArrayIterCall \/ ArrayNext
    \/ ListIterCall \/ ListIterNext
    \/ ArrayGetCall
    \/ KeyItemsCountCall
    \/ VehicleIdsCall \/ VehicleIdsPull

SpecData == InitData /\ [][NextData]_vars

----------------------------------------------------------------------------
(* Properties of Game::battle_check (game.rs). *)

(* The last poll was a Game::running; in GameWatched it read the battle *)
(* info, so both watchers hold the pair of that poll.                   *)
GamePolled ==
    sut \in {"game_battle", "game_inventory", "game_reads"} /\ sample # NoSample

GameWatched == GamePolled /\ bret.site # "unreadable"

(* in_battle went true -> false on the last poll, battle_playing did not. *)
BattleEndedEdge ==
    /\ GameWatched
    /\ ChangedTo(in_battle, FALSE)
    /\ ~ChangedTo(battle_playing, FALSE)

SampledMonster == MonsterTryFrom(sample.info.encounter_id)

(* The statement of C1 as written: the battle-ended split is returned on *)
(* exactly the polls with that edge.                                     *)
C1_AsWritten ==
    GamePolled => ((bret.site = "ended") <=> BattleEndedEdge)

(* C1: Game::running returns the battle-ended Monster split on a poll if   *)
(* and only if, on that poll, in_battle went true -> false, battle_playing *)
(* did not go true -> false, the early setting is off and the encounter is *)
(* a known monster other than Chaos; the split is that monster.            *)
C1_BattleEndedSplit ==
    GamePolled =>
        /\ (bret.site = "ended") <=>
               /\ BattleEndedEdge
               /\ ~sample.early
               /\ SampledMonster \notin {"Err", "Chaos"}
        /\ (bret.site = "ended") => ret = MonsterSplit(SampledMonster)

C1_Witness ==
    /\ bret.site = "ended" /\ ret = MonsterSplit("Garland")
    /\ BattleEndedEdge /\ battle_playing.current = TRUE

(* in_battle stayed true on the last poll while battle_playing went      *)
(* true -> false with the result Win against a known monster, not Chaos. *)
BattleDoneEdge ==
    /\ GameWatched
    /\ in_battle.old = TRUE /\ in_battle.current = TRUE
    /\ ChangedTo(battle_playing, FALSE)
    /\ sample.info.result = "Win"
    /\ SampledMonster \notin {"Err", "Chaos"}

(* The statement of C2 as written: such a poll returns the monster. *)
C2_AsWritten ==
    BattleDoneEdge => ret = MonsterSplit(SampledMonster)

(* C2: when in_battle stays true and battle_playing goes true -> false with *)
(* the result Win against a known monster other than Chaos, that poll       *)
(* returns the Monster split of the encounter if the early setting is on,   *)
(* and no Monster split if it is off.                                       *)
C2_BattleDoneSplit ==
    BattleDoneEdge =>
        IF sample.early
        THEN ret = MonsterSplit(SampledMonster) /\ bret.site = "done_early"
        ELSE ret.kind # "Monster"

C2_Witness ==
    BattleDoneEdge /\ sample.early /\ ret = MonsterSplit("Garland")

----------------------------------------------------------------------------
(* Properties of Progress and Delayed (splits.rs). *)

ChaosAction == MonsterSplit("Chaos")

(* The statement of C3 as written: no Chaos action on the poll of the *)
(* report, and the Chaos action on exactly the K-th poll after it.    *)
C3_AsWritten ==
    /\ age = 0 => ret # ChaosAction
    /\ (age = K) <=> (ret = ChaosAction)

(* The statement of C4 as written: Delayed::set on a pending countdown *)
(* fails an assertion.                                                 *)
C4_AsWritten == lastSet = "pending" => panic

(* C5: on the poll where the delayed Chaos action comes due Progress::running *)
(* returns it without calling Game::running: in_battle, battle_playing and    *)
(* the seen-pickup set are left as they were.                                 *)
C5_DueBeforeChecks ==
    [][(delay = 1 /\ ~panic) =>
           /\ action = ChaosAction /\ ret' = ChaosAction
           /\ bret'.site = NotCalled /\ iret' = NotCalled
           /\ in_battle' = in_battle /\ battle_playing' = battle_playing
           /\ items' = items
           /\ delay' = 0]_vars

(* The due poll of a countdown that ran while the game went on: Lute was *)
(* picked up and the battle watchers moved.                              *)
C5_Witness ==
    /\ sut = "progress" /\ ret = ChaosAction /\ bret.site = NotCalled
    /\ delay = 0 /\ age = K /\ items = {"Lute"} /\ Changed(battle_playing)

----------------------------------------------------------------------------
(* Properties of a poll repeated on the same remote values. *)

----------------------------------------------------------------------------
(* Properties of the delayed Chaos split of Splits::battle_check (lib.rs). *)

SplitOnChaos == MonsterSplit("Chaos")

IsSplits == sut \in {"splits_battle", "splits_field", "splits_reads", "splits_chaos"}

(* The last poll went past both edges of in_battle: lines 713-746 ran. *)
BattleWentOn == IsSplits /\ bret.site \in {"none", "chaos_delay", "death_animation"}

(* The deadline is armed and the last poll read what the one before read. *)
ArmedSteady ==
    /\ chaos_end # F32Max /\ steady
    /\ sample.active /\ sample.result = "Win" /\ sample.encounter = "Chaos"

(* The statement of C7 as written: once armed, if every later poll reads the *)
(* same values, the Chaos split is still returned.                           *)
C7_AsWritten == ArmedSteady ~> (bret.site = "chaos_delay" \/ ~steady)

(* C7: with BattleSplit::BattleEnd the Win edge against Chaos arms chaos_end *)
(* at the battle time read plus FRAMES / FPS; the delayed Chaos split is     *)
(* returned exactly on a poll of the ongoing battle that reads the result    *)
(* Win again and a battle time above the deadline, which disarms it; polls   *)
(* that read the battle time of the arming poll again never return it.       *)
C7_FiresOnBattleTime ==
    [][/\ (bret'.site = "none" /\ ChangedTo(battle_result', "Win"))
              => chaos_end' = sample'.time + (Frames \div Fps)
       /\ (bret'.site = "chaos_delay") <=>
              /\ BattleWentOn'
              /\ Unchanged(battle_result') /\ battle_result'.current = "Win"
              /\ sample'.time > chaos_end
       /\ (bret'.site = "chaos_delay")
              => chaos_end' = F32Max /\ ret' \in {SplitOnChaos, NoSplit}
       /\ (ret' = SplitOnChaos) => bret'.site = "chaos_delay"
       /\ (sample' = sample /\ chaos_end = sample.time + (Frames \div Fps))
              => bret'.site # "chaos_delay" /\ chaos_end' = chaos_end]_vars

C7_Witness ==
    /\ sut = "splits_chaos" /\ bret.site = "chaos_delay" /\ ret = SplitOnChaos
    /\ chaos_end = F32Max /\ sample.split = "BattleEnd" /\ sample.time = MaxTime

(* The last poll read the result of a Chaos battle and it changed to Win. *)
ChaosWinEdge ==
    /\ IsSplits /\ sample # NoSample
    /\ bret.site \notin {NotCalled, "no_battle", "no_encounter"}
    /\ sample.encounter = "Chaos"
    /\ ChangedTo(battle_result, "Win")

(* The statement of C8 as written: the poll of the Win edge against Chaos *)
(* does not return the Chaos split, in either mode.                       *)
C8_AsWritten == ChaosWinEdge => ret # SplitOnChaos

----------------------------------------------------------------------------
(* Properties of the inventory checks (game.rs and lib.rs). *)

IsGame == sut \in {"game_battle", "game_inventory", "game_reads"}

Elements(seq) == {seq[i] : i \in 1..Len(seq)}

(* The known key items and vehicles the last poll read, in the order read. *)
KeyPickups ==
    IF sample = NoSample THEN <<>>
    ELSE IF IsGame
         THEN KnownPickups([key_items |-> sample.inventory.key_items, vehicles |-> <<>>])
         ELSE sample.key_items

VehiclePickups ==
    IF sample = NoSample THEN <<>>
    ELSE IF IsGame
         THEN KnownPickups([key_items |-> <<>>, vehicles |-> sample.inventory.vehicles])
         ELSE sample.vehicles

(* The pickups marked seen: Game.items, or the one bits of Splits.items. *)
Marked == IF IsGame THEN items ELSE {ItemNames[ord + 1] : ord \in sp_items}

(* The last poll performed the inventory check. *)
InventoryChecked == (IsGame \/ IsSplits) /\ iret # NotCalled

(* The first element of seq outside marked, NoPickup if there is none. *)
FirstUnseen(seq, marked) ==
    IF \E i \in 1..Len(seq) : seq[i] \notin marked
    THEN seq[CHOOSE i \in 1..Len(seq) :
                 /\ seq[i] \notin marked
                 /\ \A j \in 1..(i - 1) : seq[j] \in marked]
    ELSE NoPickup

(* C9: when the poll's inventory holds exactly one unseen key item and  *)
(* exactly one unseen vehicle, the inventory check returns the key item *)
(* and marks only it; when the next poll performs the inventory check   *)
(* on the same values, it returns the vehicle.                          *)
C9_KeyItemThenVehicle ==
    [][/\ InventoryChecked' =>
              \E keys \in {Elements(KeyPickups') \ Marked} :
              \E vehicles \in {Elements(VehiclePickups') \ Marked} :
                  (Cardinality(keys) = 1 /\ Cardinality(vehicles) = 1)
                  => /\ {iret'} = keys
                     /\ ret' = PickupSplit(iret')
                     /\ Marked' = Marked \cup {iret'}
       /\ (InventoryChecked /\ sample' = sample /\ InventoryChecked') =>
              \E keys \in {Elements(KeyPickups)} :
              \E vehicles \in {Elements(VehiclePickups) \ Marked} :
                  (/\ iret \in keys /\ keys \subseteq Marked
                   /\ Cardinality(vehicles) = 1)
                  => /\ {iret'} = vehicles
                     /\ ret' = PickupSplit(iret')
                     /\ Marked' = Marked \cup {iret'}]_vars

(* Lute and Ship appeared together in Pravoka: Lute was returned first, *)
(* Ship by the next poll.                                               *)
C9_Witness ==
    /\ sut = "splits_field" /\ steady /\ iret = "Ship" /\ ret = PickupSplit("Ship")
    /\ sample.key_items = <<"Lute">> /\ sample.vehicles = <<"Ship">>
    /\ Marked = {"Lute", "Ship"}

(* C10: every poll that performs the inventory check returns the first *)
(* pickup of its inventory, key items before vehicles, that is not yet *)
(* marked seen, and marks exactly that one; when all are marked it     *)
(* returns none and marks none. A marked pickup stays marked and is    *)
(* not returned again, so n unseen pickups that stay in the inventory  *)
(* are returned by the next n such polls, one each.                    *)
C10_OnePickupPerPoll ==
    [][/\ InventoryChecked' =>
              \E seq \in {KeyPickups' \o VehiclePickups'} :
              \E first \in {FirstUnseen(seq, Marked)} :
                  /\ iret' = first
                  /\ iret' \notin Marked
                  /\ Marked' = Marked \cup ({first} \ {NoPickup})
                  /\ ret' = IF first = NoPickup THEN NoSplit ELSE PickupSplit(first)
       /\ Marked \subseteq Marked']_vars

(* Lute, Crown and Ship were present at once: the third poll on the same *)
(* inventory returned the last of them.                                  *)
C10_Witness ==
    /\ sut = "game_inventory" /\ steady /\ iret = "Ship"
    /\ sample.inventory.key_items = <<44, 45>>
    /\ sample.inventory.vehicles = <<4>>
    /\ items = {"Lute", "Crown", "Ship"}

----------------------------------------------------------------------------
(* Properties of Splits::split_check and Splits::check (lib.rs). *)

SplitsPolled == IsSplits /\ sample # NoSample

(* The statement of C11 as written: every poll performs the inventory check. *)
C11_AsWritten == SplitsPolled => iret # NotCalled

(* C11: Splits::split_check performs the inventory check (key items, then *)
(* vehicles) on exactly the polls where battle_check reports no battle,   *)
(* the location is read, the location watcher gives no location split and *)
(* the location read is one of Location::has_key_item.                    *)
C11_InventoryGated ==
    SplitsPolled =>
        ((iret # NotCalled) <=>
             /\ bret.site = "no_battle"
             /\ sample.location # NoLocation
             /\ FromWatcher(location) = "NoField"
             /\ HasKeyItem(sample.location))

(* In battle in Pravoka with the unseen Lute in the inventory: no check. *)
C11_Witness ==
    /\ sut = "splits_reads" /\ sample # NoSample /\ iret = NotCalled
    /\ sp_in_battle.current = TRUE /\ sample.location = "Pravoka"
    /\ sample.key_items = <<"Lute">> /\ sp_items = {}

(* C12: Splits::check returns no SplitOn value that the same Splits instance *)
(* has returned on an earlier poll, whatever the polls read.                 *)
C12_EachSplitOnce ==
    [][(IsSplits /\ ret'.kind # "None") =>
           /\ ret'.id \notin returned
           /\ SplitOnOrdinal(ret'.id) \notin seen
           /\ SplitOnOrdinal(ret'.id) \in seen']_vars

(* A second battle against Garland ended: split_check found the split, *)
(* Splits::check returned None.                                        *)
C12_Witness ==
    /\ sut = "splits_battle" /\ bret.site = "ended" /\ bret.mon = "Garland"
    /\ ret = NoSplit /\ "Garland" \in returned

----------------------------------------------------------------------------
(* The order of the watcher updates within one poll. *)

(* seq holds no element twice and lists its elements in the order of fixed. *)
InOrderOf(seq, fixed) ==
    /\ Elements(seq) \subseteq Elements(fixed)
    /\ \A i, j \in 1..Len(seq) :
           i < j => IndexOf(fixed, seq[i]) < IndexOf(fixed, seq[j])

----------------------------------------------------------------------------
(* Properties of the battle edges (game.rs 100-127, lib.rs 685-711). *)

(* C14: a poll of Game::battle_check on which in_battle went true -> false *)
(* and battle_playing went true -> false returns no Monster, for every     *)
(* encounter id and either value of early.                                 *)
C14_ResetNoSplit ==
    (GameWatched /\ ChangedTo(in_battle, FALSE) /\ ChangedTo(battle_playing, FALSE)) =>
        /\ bret.mon = NoMonster
        /\ ret.kind # "Monster"

(* An abrupt reset of a battle against a known monster with early off: the *)
(* case in which the ended branch would otherwise split.                   *)
C14_Witness ==
    /\ GameWatched /\ bret.site = "reset"
    /\ ChangedTo(in_battle, FALSE) /\ ChangedTo(battle_playing, FALSE)
    /\ SampledMonster = "Garland" /\ ~sample.early

(* The statement of C15 as written, for a battle of two polls: in_battle went *)
(* false -> true on one poll and true -> false on the next, and neither poll  *)
(* sampled the outcome Win; the ending poll returns no Monster.               *)
C15_AsWritten ==
    [][(/\ GameWatched /\ ChangedTo(in_battle, TRUE)
        /\ sample.info.result # "Win"
        /\ sample'.info.ok /\ sample'.info.result # "Win"
        /\ ChangedTo(in_battle', FALSE))
       => (bret'.mon = NoMonster /\ ret'.kind # "Monster")]_vars

(* The statement of C16 as written: the battle-ended split carries the   *)
(* monster sampled on the poll where in_battle went false -> true, here  *)
(* for a battle that ends on the poll after it started.                  *)
C16_AsWritten ==
    [][/\ (/\ GameWatched /\ ChangedTo(in_battle, TRUE)
           /\ SampledMonster \notin {"Err", "Chaos"}
           /\ bret'.site = "ended")
          => ret' = MonsterSplit(SampledMonster)
       /\ (/\ SplitsPolled /\ bret.site = "started"
           /\ sample.encounter \notin {NoEncounter, "Chaos"}
           /\ bret'.site = "ended")
          => bret'.mon = sample.encounter]_vars

(* C17: on the poll where in_battle went true -> false neither            *)
(* Game::battle_check nor Splits::battle_check returns Monster::Chaos, in *)
(* either split mode.                                                     *)
C17_NoChaosAtBattleEnd ==
    /\ (GameWatched /\ ChangedTo(in_battle, FALSE)) =>
           (bret.mon # "Chaos" /\ ret # MonsterSplit("Chaos"))
    /\ (SplitsPolled /\ ChangedTo(sp_in_battle, FALSE)) =>
           (bret.mon # "Chaos" /\ ret # SplitOnChaos)

(* The won battle against Chaos ends with BattleSplit::BattleEnd: the case *)
(* in which any other monster is returned.                                 *)
C17_Witness ==
    /\ SplitsPolled /\ ChangedTo(sp_in_battle, FALSE)
    /\ sample.encounter = "Chaos" /\ sample.split = "BattleEnd"
    /\ ChangedFrom(battle_result, "Win")
    /\ bret.site = "ended_none"

----------------------------------------------------------------------------
(* Unknown identities and failed reads. *)

(* The last poll of Game::running read an inventory that holds ids, none *)
(* of which is a Pickup.                                                 *)
OnlyUnknownIds ==
    /\ GamePolled /\ sample.inventory.ok
    /\ sample.inventory.key_items \o sample.inventory.vehicles # <<>>
    /\ \A id \in Elements(sample.inventory.key_items \o sample.inventory.vehicles) :
           PickupTryFrom(id) = "Err"

(* C18: an encounter id that is no Monster yields no battle split from     *)
(* Game::battle_check, an encounter that cannot be read yields none from   *)
(* Splits::battle_check, an id that is no Pickup is never returned by      *)
(* Game::inventory_check and never enters Game.items, and a poll that sees *)
(* only such ids returns no pickup and leaves Game.items as it was.        *)
C18_UnknownIdsSilent ==
    [][/\ (GameWatched' /\ SampledMonster' = "Err") =>
              (bret'.mon = NoMonster /\ ret'.kind # "Monster")
       /\ (SplitsPolled' /\ sample'.encounter = NoEncounter) =>
              (bret'.mon = NoMonster /\ ret'.kind # "Monster")
       /\ IsGame => ("Err" \notin items' /\ iret' # "Err" /\ ret'.id # "Err")
       /\ OnlyUnknownIds' =>
              (iret' \in {NoPickup, NotCalled} /\ ret'.kind # "Pickup" /\ items' = items)]_vars

(* A poll that performed the inventory check on an inventory holding only *)
(* the unknown vehicle id 7, before any pickup was seen.                  *)
C18_Witness ==
    /\ OnlyUnknownIds /\ sample.inventory.vehicles = <<7>>
    /\ iret = NoPickup /\ items = {}

(* The statement of C19 as written: a poll on which the read of the         *)
(* battle-active flag failed makes no true -> false edge of in_battle and   *)
(* returns no battle split.                                                 *)
C19_AsWritten ==
    /\ (GameWatched /\ ~sample.active_ok) =>
           (~ChangedTo(in_battle, FALSE) /\ ret.kind # "Monster")
    /\ (SplitsPolled /\ ~sample.active_ok) =>
           (~ChangedTo(sp_in_battle, FALSE) /\ ret.kind # "Monster")

----------------------------------------------------------------------------
(* Properties of the remote containers (data.rs). *)

(* The map header and the header of its backing array can be read. *)
MapReadable ==
    /\ ptr # 0 /\ ptr \in DOMAIN mem
    /\ mem[ptr].entries # 0 /\ mem[ptr].entries \in DOMAIN mem

(* The address of slot i of the backing array. *)
SlotAddr(i) == mem[ptr].entries + ArrayData + i * EntrySize

(* The number of slots the backing array declares. *)
NSlots == mem[mem[ptr].entries].size

(* The slots before the first one that cannot be read; the memory holds *)
(* at most the first MaxSlots slots of a backing array.                  *)
ReadableSlots ==
    {i \in 0..(MaxSlots - 1) :
         i < NSlots /\ \A j \in 0..i : SlotAddr(j) \in DOMAIN mem}

(* The readable slots that are not empty: not both hash = 0 and next = 0. *)
LiveSlots ==
    {i \in ReadableSlots : ~(mem[SlotAddr(i)].hash = 0 /\ mem[SlotAddr(i)].next = 0)}

(* The number of live slots before slot i. *)
LiveBefore(i) == Cardinality({j \in LiveSlots : j < i})

(* The first map.size live slots. *)
YieldedSlots == {i \in LiveSlots : LiveBefore(i) < mem[ptr].size}

(* C20: Pointer<Map<K, V>>::iter yields the (key, value) pairs of the live *)
(* slots of the backing array, in slot order, and stops after map.size of  *)
(* them: the k-th item is the pair of the k-th live slot, and a finished   *)
(* iteration has yielded the first map.size live slots among the slots     *)
(* before the first unreadable one, and nothing else. When a header cannot *)
(* be read there is no iterator and nothing is yielded.                    *)
C20_MapIterLiveSlots ==
    sut = "data_map" =>
        /\ (iter.state = "none") <=> (iter.state # "new" /\ ~MapReadable)
        /\ iter.state \in {"new", "none"} => out = <<>>
        /\ iter.state \in {"some", "done"} =>
               /\ Len(out) <= Cardinality(YieldedSlots)
               /\ \A k \in 1..Len(out) :
                      \E i \in YieldedSlots :
                          /\ LiveBefore(i) = k - 1
                          /\ out[k] = <<mem[SlotAddr(i)].key, mem[SlotAddr(i)].value>>
        /\ iter.state = "done" => Len(out) = Cardinality(YieldedSlots)

(* A finished iteration over four readable slots of which the second and *)
(* the fourth are live, with map.size = 2.                               *)
C20_Witness ==
    /\ sut = "data_map" /\ iter.state = "done" /\ MapReadable
    /\ NSlots = 4 /\ ReadableSlots = 0..3 /\ LiveSlots = {1, 3}
    /\ mem[ptr].size = 2
    /\ out = <<<<2, 101>>, <<4, 103>>>>

(* Pointer<Array<T>>::iter was called on an array whose header can be read. *)
ArrayIterated ==
    /\ sut = "data_array" /\ iter.state # "new"
    /\ ptr # 0 /\ ptr \in DOMAIN mem

(* The address of element i of the array of pointers. *)
ElemAddr(i) == ptr + ArrayData + i * PointerSize

(* The number of elements the array header declares. *)
ArraySize == mem[ptr].size

(* The elements before the first one that cannot be read; the memory holds *)
(* at most the first MaxSlots elements of an array.                        *)
ReadableElems ==
    {i \in 0..(MaxSlots - 1) :
         i < ArraySize /\ \A j \in 0..i : ElemAddr(j) \in DOMAIN mem}

(* The statement of C21 as written: when only the first m < n elements of  *)
(* an array declaring n can be read, the iteration does not panic, yields  *)
(* those m elements in order, and has then read the header and the         *)
(* elements 0..m, the last read being the one that failed.                 *)
C21_AsWritten ==
    (ArrayIterated /\ Cardinality(ReadableElems) < ArraySize) =>
        /\ iter.state # "panic"
        /\ Len(out) <= Cardinality(ReadableElems)
        /\ \A k \in 1..Len(out) : out[k] = mem[ElemAddr(k - 1)]
        /\ \A k \in 2..Len(reads) : reads[k] = ElemAddr(k - 2)
        /\ Len(reads) <= Cardinality(ReadableElems) + 2
        /\ iter.state = "done" =>
               /\ Len(out) = Cardinality(ReadableElems)
               /\ Len(reads) = Cardinality(ReadableElems) + 2

(* The statement of C22 as written, for Pointer<Array<T>>::iter: whatever  *)
(* size the header declares, the byte length size * size_of::<T>() is      *)
(* computed without overflow, so the call does not panic and the iterator  *)
(* ends at base + 0x20 + size * size_of::<T>(); every element read lies    *)
(* below that end, and at most size elements are yielded.                  *)
C22_AsWritten ==
    ArrayIterated =>
        /\ iter.state # "panic"
        /\ iter.state \in {"some", "done"} =>
               /\ (iter.end - ptr - ArrayData) % PointerSize = 0
               /\ (iter.end - ptr - ArrayData) \div PointerSize = ArraySize
        /\ \A k \in 2..Len(reads) :
               /\ reads[k] >= ptr + ArrayData
               /\ (reads[k] - ptr - ArrayData) \div PointerSize < ArraySize
        /\ Len(out) <= ArraySize

(* Pointer<Array<u32>>::get returned, on an array whose header can be read. *)
ArrayGot ==
    /\ sut = "data_get" /\ iter.state = "returned"
    /\ ptr # 0 /\ ptr \in DOMAIN mem

(* C23: Pointer<Array<T>>::get with an index at or beyond the size the     *)
(* header declares returns None and has read the header only; with an      *)
(* index below the size it has read, after the header, the one address     *)
(* base + 0x20 + index * size_of::<T>() and returns what that read gave.   *)
C23_GetInRange ==
    /\ sut = "data_get" => iter.state \in {"new", "returned"}
    /\ ArrayGot =>
           IF index >= mem[ptr].size
           THEN out = <<>> /\ reads = <<ptr>>
           ELSE /\ reads = <<ptr, ptr + ArrayData + index * U32Size>>
                /\ out = IF reads[2] \in DOMAIN mem THEN <<mem[reads[2]]>> ELSE <<>>

(* get(2) on an array that declares 2 elements while the memory behind *)
(* them can be read.                                                   *)
C23_Witness ==
    /\ ArrayGot /\ index = 2 /\ mem[ptr].size = 2
    /\ ptr + ArrayData + 2 * U32Size \in DOMAIN mem
    /\ out = <<>> /\ reads = <<ptr>>

(* Pointer<List<T>>::iter was called on a list whose header and whose *)
(* backing array's header can be read.                                *)
ListIterated ==
    /\ sut = "data_list" /\ iter.state # "new"
    /\ ptr # 0 /\ ptr \in DOMAIN mem
    /\ mem[ptr].items # 0 /\ mem[ptr].items \in DOMAIN mem

(* The address of element i of the list's backing array. *)
ItemAddr(i) == mem[ptr].items + ArrayData + i * PointerSize

(* min(list.size, array.size). *)
ListLen ==
    IF mem[ptr].size <= mem[mem[ptr].items].size
    THEN mem[ptr].size ELSE mem[mem[ptr].items].size

(* The statement of C24 as written: when the first min(list.size,         *)
(* array.size) elements of the backing array can all be read, the         *)
(* iteration does not panic, yields those elements in index order and no  *)
(* others.                                                                *)
C24_AsWritten ==
    (ListIterated /\ \A i \in 0..(ListLen - 1) : ItemAddr(i) \in DOMAIN mem) =>
        /\ iter.state # "panic"
        /\ Len(out) <= ListLen
        /\ \A k \in 1..Len(out) : out[k] = mem[ItemAddr(k - 1)]
        /\ iter.state = "done" => Len(out) = ListLen

(* The scenarios of the remote containers. *)
DataScenarios == {"data_map", "data_array", "data_list", "data_get", "data_size"}

(* The pointer the operation was called on is null or its target cannot *)
(* be read.                                                             *)
OuterFailed == ptr = 0 \/ ptr \notin DOMAIN mem

(* The pointer to the backing array in a map or list header. *)
InnerPtr == IF sut = "data_map" THEN mem[ptr].entries ELSE mem[ptr].items

(* The map or list header can be read, and the pointer to the backing *)
(* array in it is null or the array header cannot be read.            *)
InnerFailed ==
    /\ sut \in {"data_map", "data_list"} /\ ~OuterFailed
    /\ InnerPtr = 0 \/ InnerPtr \notin DOMAIN mem

(* C25: a container operation that meets a null pointer or an unreadable  *)
(* header on its way returns None: iter gives no iterator and nothing is  *)
(* yielded, get gives no element, key_items_count is 0; and the reader    *)
(* has been asked for the headers up to the failing one only, never for   *)
(* an element.                                                            *)
C25_ShortCircuit ==
    (sut \in DataScenarios /\ iter.state \notin {"new", "err"}) =>
        /\ OuterFailed =>
               /\ iter.state = IF sut \in {"data_get", "data_size"}
                               THEN "returned" ELSE "none"
               /\ out = <<>>
               /\ count = IF sut = "data_size" THEN 0 ELSE -1
               /\ reads = IF ptr = 0 THEN <<>> ELSE <<ptr>>
        /\ InnerFailed =>
               /\ iter.state = "none" /\ out = <<>>
               /\ reads = IF InnerPtr = 0 THEN <<ptr>> ELSE <<ptr, InnerPtr>>

(* Pointer<List<T>>::iter returned None on a list whose backing array has *)
(* an unreadable header while its first element could be read.            *)
C25_Witness ==
    /\ sut = "data_list" /\ InnerFailed /\ InnerPtr # 0
    /\ InnerPtr + ArrayData \in DOMAIN mem
    /\ iter.state = "none" /\ out = <<>> /\ reads = <<ptr, InnerPtr>>

(* C26: the reader is never asked to read the null address, and an       *)
(* operation called on a null pointer returns None without any read.     *)
C26_NullNeverRead ==
    sut \in DataScenarios =>
        /\ \A k \in 1..Len(reads) : reads[k] # 0
        /\ (ptr = 0 /\ iter.state \notin {"new", "err"}) =>
               /\ reads = <<>> /\ out = <<>>
               /\ iter.state \in {"none", "returned"}
               /\ count \in {-1, 0}

(* Pointer<Map<K, V>>::iter returned None on a readable map whose entries *)
(* pointer is null, after the one read of the map header.                 *)
C26_Witness ==
    /\ sut = "data_map" /\ InnerFailed /\ InnerPtr = 0
    /\ iter.state = "none" /\ reads = <<ptr>>

----------------------------------------------------------------------------
(* The split-mode argument (game.rs 68, lib.rs 612). *)

(* The sample s polled with the other value of the mode argument. *)
OtherEarly(s) == [s EXCEPT !.early = ~@]

OtherBattleSplit(s) ==
    [s EXCEPT !.split = IF @ = "BattleEnd" THEN "DeathAnimation" ELSE "BattleEnd"]

(* The statement of C27 as written: a poll returns the event it would *)
(* have returned from the same state and the same samples with the    *)
(* other value of the mode argument.                                  *)
C27_AsWritten ==
    [][/\ sut \in {"game_battle", "game_inventory", "game_reads"} =>
              ret' = GameRunning(in_battle, battle_playing, items,
                                 OtherEarly(sample')).ret
       /\ IsSplits =>
              ret' = SplitsCheck(sp_in_battle, battle_result, location, sp_items,
                                 seen, chaos_end, OtherBattleSplit(sample')).ret]_vars

(* C27: the mode argument decides only whether a poll returns the Monster  *)
(* split of the sampled encounter. From the same state and the same        *)
(* samples, Game::running updates in_battle and battle_playing, and        *)
(* Splits::check updates in_battle, battle_result and chaos_end, to the    *)
(* same values under both modes; and when the events returned under the    *)
(* two modes differ, one of them is the Monster split of the encounter.    *)
C27_ModeDecidesMonsterOnly ==
    [][/\ sut \in {"game_battle", "game_inventory", "game_reads"} =>
              \E alt \in {GameRunning(in_battle, battle_playing, items,
                                      OtherEarly(sample'))} :
                  /\ in_battle' = alt.in_battle
                  /\ battle_playing' = alt.battle_playing
                  /\ ret' # alt.ret =>
                         MonsterSplit(MonsterTryFrom(sample'.info.encounter_id))
                             \in {ret', alt.ret}
       /\ IsSplits =>
              \E alt \in {SplitsCheck(sp_in_battle, battle_result, location, sp_items,
                                      seen, chaos_end, OtherBattleSplit(sample'))} :
                  /\ sp_in_battle' = alt.state.in_battle
                  /\ battle_result' = alt.state.battle_result
                  /\ chaos_end' = alt.state.chaos_end
                  /\ ret' # alt.ret =>
                         MonsterSplit(sample'.encounter) \in {ret', alt.ret}]_vars

(* Game::running returned Garland's split while the battle goes on, which *)
(* it does with the early setting only.                                   *)
C27_Witness ==
    /\ sut = "game_battle" /\ sample # NoSample /\ sample.early
    /\ bret.site = "done_early" /\ ret = MonsterSplit("Garland")

----------------------------------------------------------------------------
(* Properties of main_loop (lib.rs 310-339). *)

(* The Splits of the Running state. *)
SplitsNow ==
    [in_battle |-> sp_in_battle, battle_result |-> battle_result,
     location |-> location, items |-> sp_items, seen |-> seen,
     chaos_end |-> chaos_end]

(* C28: every call of main_loop that takes the state from NotRunning to    *)
(* Running leaves the Splits that Splits::new constructs: three watchers   *)
(* that have observed nothing, an empty item set, an empty seen-split set  *)
(* and chaos_end = f32::MAX, whatever an earlier run left; every call that *)
(* takes it from Running to NotRunning leaves a new Title and does not     *)
(* touch a Splits; and while the state is NotRunning no Splits is polled.  *)
C28_FreshSplitsPerRun ==
    [][/\ (state = "NotRunning" /\ state' = "Running") =>
              /\ SplitsNow' = SplitsNew
              /\ flow'.flow = "Continue" \/ flow' = BreakStart
       /\ (state = "Running" /\ state' = "NotRunning") =>
              /\ fade_out' = TitleNew /\ flow' = Continue
              /\ SplitsNow' = SplitsNow
       /\ (state = "NotRunning" /\ state' = "NotRunning") =>
              /\ SplitsNow' = SplitsNow /\ flow' = BreakNone]_vars

(* A second run has just begun, on a seen-split set that is empty although *)
(* the first run returned Garland's split and the Lute's.                  *)
C28_Witness ==
    /\ sut = "main" /\ state = "Running" /\ flow = Continue
    /\ returned = {"Garland", "Lute"}
    /\ SplitsNow = SplitsNew

----------------------------------------------------------------------------
(* Properties of the order of the checks in Splits::split_check. *)

(* The poll has updated the location watcher to a pair that is a *)
(* location split: field_check returned Ok.                      *)
FieldSplitFound == location' # location /\ FromWatcher(location') # "NoField"

(* C29: a poll of Splits::split_check returns at most the one split of the *)
(* first check that finds one, in the order battle, location, pickup. When *)
(* battle_check returns a monster, the location watcher and the item set   *)
(* are left as they were and nothing but that monster's split is returned; *)
(* when the location watcher is updated to a location split, the item set  *)
(* is left as it was, the inventory is not read and nothing but that       *)
(* location's split is returned; a pickup is returned only when neither a  *)
(* monster nor a location split was found.                                 *)
C29_OneSplitByPriority ==
    [][sut = "splits_priority" =>
           /\ bret'.mon # NoMonster =>
                  /\ location' = location /\ sp_items' = sp_items
                  /\ iret' = NotCalled
                  /\ ret' \in {NoSplit, MonsterSplit(bret'.mon)}
           /\ FieldSplitFound =>
                  /\ bret'.mon = NoMonster
                  /\ sp_items' = sp_items /\ iret' = NotCalled
                  /\ ret' \in {NoSplit, FieldSplit(FromWatcher(location'))}
           /\ ret'.kind = "Pickup" =>
                  /\ bret'.mon = NoMonster /\ ~FieldSplitFound
                  /\ ret' = PickupSplit(iret')]_vars

(* Garland's split was returned by a poll whose sample shows the way out  *)
(* of the item shop and a Lute that is not in the item set: the location  *)
(* watcher still holds the shop and the item set is empty.                *)
C29_Witness ==
    /\ sut = "splits_priority" /\ bret.mon = "Garland"
    /\ ret = MonsterSplit("Garland")
    /\ location.current = "ElfenheimItemShop" /\ sample.location = "Elfenheim"
    /\ sample.key_items = <<"Lute">> /\ sp_items = {}

----------------------------------------------------------------------------
(* The first poll of a Splits. *)

(* C30: the first call of Splits::check on the Splits that Splits::new   *)
(* constructed returns no monster's split and no location split,         *)
(* whatever the samples are; battle_check returns no monster on it.      *)
C30_FirstPollNoEdge ==
    [][(IsSplits /\ sample = NoSample) =>
           /\ bret'.mon = NoMonster
           /\ ret'.kind \notin {"Monster", "Field"}
           /\ FromWatcher(location') = "NoField"]_vars

(* After the first poll, whose samples show a battle against Garland that  *)
(* is active and won: all watchers hold the sample as both values of their *)
(* pair, and nothing was returned.                                         *)
C30_Witness ==
    /\ sut = "splits_battle" /\ beat = 1 /\ returned = {} /\ ret = NoSplit
    /\ sample.active /\ sample.result = "Win" /\ sample.encounter = "Garland"
    /\ sample.split = "DeathAnimation"
    /\ sp_in_battle = [seen |-> TRUE, old |-> TRUE, current |-> TRUE]
    /\ battle_result = [seen |-> TRUE, old |-> "Win", current |-> "Win"]
    /\ bret.mon = NoMonster

----------------------------------------------------------------------------
(* Properties of the battle splits of Splits::battle_check over a battle. *)

(* The statement of C31 as written: when a battle against Garland in which *)
(* the result Win was read has ended, battle_check has returned Garland on *)
(* exactly one poll of it.                                                 *)
C31_AsWritten ==
    (sut \in WonScenarios /\ fight.over /\ fight.won) => fight.hits = 1

----------------------------------------------------------------------------
(* Properties of EnumSet (lib.rs 535-559). *)

(* C32: EnumSet::insert returns true exactly when the item's ordinal is     *)
(* below 64 and no earlier insert had that ordinal; the set after the call  *)
(* contains the set before it; a repeated insert and an insert without an   *)
(* ordinal or with an ordinal of 64 or more leave the set as it was; and    *)
(* the set holds exactly the ordinals below 64 that were inserted.          *)
C32_InsertOnce ==
    (sut = "enumset" /\ lastInsert.called) =>
        /\ lastInsert.inserted <=>
               (lastInsert.ord \in 0..63 /\ lastInsert.ord \notin lastInsert.prior)
        /\ lastInsert.before \subseteq seen
        /\ lastInsert.ord \in lastInsert.prior => (~lastInsert.inserted /\ seen = lastInsert.before)
        /\ lastInsert.ord \notin 0..63 => (~lastInsert.inserted /\ seen = lastInsert.before)
        /\ seen = lastInsert.tried \cap (0..63)

(* The second insert of the item with ordinal 40 into a set that holds 0 *)
(* and 40: false is returned and the set is the same.                    *)
C32_Witness ==
    /\ sut = "enumset" /\ lastInsert.called /\ lastInsert.ord = 40 /\ 40 \in lastInsert.prior
    /\ ~lastInsert.inserted /\ lastInsert.before = {0, 40} /\ seen = {0, 40}

----------------------------------------------------------------------------
(* Properties of main_loop's returns (lib.rs 310-339). *)

(* C33: a call of main_loop returns Action::Start only if the state was    *)
(* NotRunning, the timer was NotRunning, the Title had been polled before  *)
(* with the fade-out flag false and this call read it as true; the first   *)
(* poll of a Title does not return Start, whatever the flag is.            *)
C33_StartOnFadeOutEdge ==
    [][/\ flow' = BreakStart =>
              /\ state = "NotRunning" /\ lastTimer' = "NotRunning"
              /\ fade_out.seen /\ ~fade_out.current /\ fade_out'.current
       /\ (state = "NotRunning" /\ ~fade_out.seen) => flow' # BreakStart]_vars

(* Start has just been returned on the flag's change from false to true; *)
(* the state is Running with a new Splits.                               *)
C33_Witness ==
    /\ sut = "main" /\ state = "Running" /\ lastTimer = "NotRunning"
    /\ flow = BreakStart
    /\ fade_out = [seen |-> TRUE, old |-> FALSE, current |-> TRUE]
    /\ SplitsNow = SplitsNew

(* C34: a call of main_loop returns Action::Split only if the state was    *)
(* Running and the timer Running; a call that finds the timer paused or    *)
(* ended returns Break(Action::None) and leaves the state, the Title's     *)
(* watcher, the Splits' watchers, the item set and the seen-split set as   *)
(* they were.                                                              *)
C34_SplitOnlyWhileRunning ==
    [][/\ flow'.action = "Split" => (state = "Running" /\ lastTimer' = "Running")
       /\ lastTimer' \in {"Paused", "Ended"} =>
              /\ flow' = BreakNone /\ state' = state
              /\ fade_out' = fade_out /\ SplitsNow' = SplitsNow]_vars

(* The run is paused in the middle of the battle against Garland, with the *)
(* Lute's split already seen: nothing is returned and nothing has moved.   *)
C34_Witness ==
    /\ sut = "main" /\ state = "Running" /\ lastTimer = "Paused" /\ flow = BreakNone
    /\ sp_in_battle.current /\ ~sp_in_battle.old
    /\ seen = {SplitOnOrdinal("Lute")}

(* C35: if a call of main_loop returned Continue and the next call reads   *)
(* the same timer state, the next call returns Break, so that game_loop    *)
(* reaches next_tick.                                                      *)
C35_ContinueOnceInARow ==
    (sut = "main" /\ spun # NotCalled /\ spun = lastTimer) => flow.flow = "Break"

(* The timer was started by hand: the first call entered Running and *)
(* returned Continue, the second polled the new Splits and broke.    *)
C35_Witness ==
    /\ sut = "main" /\ spun = "Running" /\ lastTimer = "Running"
    /\ state = "Running" /\ flow = BreakNone /\ sp_in_battle.seen

----------------------------------------------------------------------------
(* Properties of Delayed under Progress::running (splits.rs 26-60). *)

(* C36 as written: no poll of Progress::running calls Delayed::set while a *)
(* countdown is pending; Game::running does not report Chaos again within  *)
(* the K polls after a report.                                             *)
C36_AsWritten ==
    sut = "progress" => (lastSet # "pending" /\ (age \in 1..(K - 1) => bret.mon # "Chaos"))

(* C37: after every call of Delayed::set or Delayed::tick a pending         *)
(* countdown has a stored action and the program has not panicked; a tick  *)
(* that returns an action returns the stored one, on the countdown's last  *)
(* poll, and leaves none stored; and a tick with no countdown pending      *)
(* returns None and leaves the Delayed as it was.                          *)
C37_PendingHasAction ==
    [][sut = "delayed" =>
           /\ ~panic' /\ (delay' # 0 => action' # NoSplit)
           /\ (lastSet' = "none" /\ ret' # NoSplit) =>
                  /\ delay = 1 /\ ret' = action
                  /\ delay' = 0 /\ action' = NoSplit
           /\ (lastSet' = "none" /\ delay = 0) =>
                  /\ ret' = NoSplit /\ delay' = 0 /\ action' = action]_vars

(* The tick that ends a countdown set for Garland: the stored action is *)
(* returned and nothing is left stored.                                *)
C37_Witness ==
    /\ sut = "delayed" /\ lastSet = "none" /\ ret = MonsterSplit("Garland")
    /\ delay = 0 /\ action = NoSplit /\ ~panic

----------------------------------------------------------------------------
(* Properties of Items::vehicle_ids (data.rs 306-332). *)

(* The list and its array can be read, with the elements 0..ListLen - 1. *)
VehiclesListed ==
    /\ sut = "data_vehicles" /\ iter.state # "new"
    /\ ptr # 0 /\ ptr \in DOMAIN mem
    /\ mem[ptr].items # 0 /\ mem[ptr].items \in DOMAIN mem
    /\ \A i \in 0..(ListLen - 1) : ItemAddr(i) \in DOMAIN mem

(* Vehicle i of the list has transportation data and save data that can *)
(* be read, and its map_id is not negative.                             *)
VehiclePlaced(i) ==
    /\ mem[ItemAddr(i)].address \in DOMAIN mem
    /\ mem[mem[ItemAddr(i)].address].data \in DOMAIN mem
    /\ mem[mem[mem[ItemAddr(i)].address].data].map_id >= 0

(* The id in the save data of vehicle i. *)
VehicleIdAt(i) == mem[mem[mem[ItemAddr(i)].address].data].id

(* The ids of the placed vehicles of the list, in list order. *)
PlacedVehicleIds ==
    LET placed == SelectSeq([k \in 1..ListLen |-> k - 1], VehiclePlaced)
    IN  [k \in 1..Len(placed) |-> VehicleIdAt(placed[k])]

(* What vehicle_ids has yielded belongs to placed vehicles of the list. *)
OnlyPlacedVehicles ==
    \A k \in 1..Len(out) :
        \E i \in 0..(ListLen - 1) : VehiclePlaced(i) /\ out[k] = VehicleIdAt(i)

(* C38 as written: vehicle_ids yields no vehicle whose transportation or   *)
(* save data cannot be read or whose map_id is negative, and when it has   *)
(* ended it has yielded the ids of all other vehicles of the list, in list *)
(* order.                                                                  *)
C38_AsWritten ==
    VehiclesListed =>
        /\ iter.state # "panic"
        /\ OnlyPlacedVehicles
        /\ iter.state = "done" => out = PlacedVehicleIds

====
